---- MODULE Spec2Model ----
(***************************************************************************)
(* Verification model of the NHS network-analysis dashboard.               *)
(*                                                                         *)
(* Part 1 (specification Spec): the two host services, api.py and          *)
(* webapp.py.  Each is a FastAPI application whose handlers and whose      *)
(* background task run_analysis are coroutines of ONE event loop.          *)
(* run_analysis is "async def" and contains no await, so once the loop     *)
(* starts it, it runs to its end before any handler runs; the only         *)
(* scheduling freedom is the order of requests and the moment at which a   *)
(* task added with BackgroundTasks.add_task is started (after the response *)
(* of its request has been sent).  The statements of run_analysis are      *)
(* still modelled one by one, in source order.                             *)
(*                                                                         *)
(* Part 2 (specification SpecFilter): the minimum-size filter of the       *)
(* community partitioner.                                                  *)
(*                                                                         *)
(* Part 3 (specification SpecGraph): the per-patient statistics of the     *)
(* graph builder.                                                          *)
(*                                                                         *)
(* Part 4 (specifications SpecClean, SpecRecords and SpecScore): the       *)
(* pipeline around the graph builder: cleaning, community scoring, risk    *)
(* tiers, the export document and the insights.                            *)
(***************************************************************************)
EXTENDS Integers, Sequences, FiniteSets, TLC

VARIABLES
    app,             \* which program is running: "api" (api.py) or "webapp" (webapp.py)
    analysis_state,  \* the module-level dict analysis_state of that program
    export_file,     \* output/network-export.json: None, or the run that wrote it
    tasks,           \* the run_analysis executions added with add_task, in order
    resp,            \* the last response a client received
    lastCompleted,   \* history: the last run that reached "completed" (None if none)
    \* Part 2: the minimum-size filter
    algorithms,          \* the cdlib import: "cdlib", or "None" when the import failed
    raw_communities,     \* leiden_result.communities / community_result.communities
    min_community_size,  \* the configured minimum size
    leiden_filtered,     \* what detect_communities_leiden returned
    size_filtered,       \* what filter_communities_by_size returned
    \* Part 3: the graph builder
    df,                  \* the cleaned appointment rows, in ingestion order
    G,                   \* the graph create_enhanced_bipartite_graph returned
    \* Part 4: the pipeline around the graph builder
    sampled_df,          \* the appointment rows as loaded, before cleaning
    network_data,        \* what clean_for_network returned
    communities,         \* the communities handed to the scoring
    community_df,        \* what analyze_community_dna_patterns returned
    risk_communities,    \* what identify_high_low_risk_communities returned
    export_data,         \* what export_for_d3js returned
    insights             \* what generate_community_insights returned

serverVars == <<app, analysis_state, export_file, tasks, resp, lastCompleted>>
filterVars == <<algorithms, raw_communities, min_community_size, leiden_filtered, size_filtered>>
pipelineVars == <<sampled_df, network_data, communities, community_df,
                  risk_communities, export_data, insights>>
graphVars  == <<df, G, pipelineVars>>
vars == <<serverVars, filterVars, graphVars>>

(***************************************************************************)
(* Bounds                                                                  *)
(***************************************************************************)
MaxRuns == 3         \* number of run_analysis executions scheduled in one behaviour

None == 0            \* Python None; a run's artefacts are named by the run's index

Pending == [ kind |-> "pending" ]   \* a function that has not been called yet

(***************************************************************************)
(* api.py                                                                  *)
(***************************************************************************)
\* the statuses run_analysis passes through, in source order
ApiPhases ==
    << "loading_data", "sampling_data", "cleaning_data", "creating_graph",
       "detecting_communities", "analyzing_communities", "identifying_risk",
       "exporting_data" >>

\* the list initialize_analysis tests analysis_progress against
RunningStatuses == { ApiPhases[i] : i \in 1..Len(ApiPhases) }

\* f"error: {str(e)}" for the exception raised in the given phase
ApiErrorStatus(phase) ==
    IF phase = "none_returned"
    THEN "error: Community detection failed - check dependencies"
    ELSE "error: exception"

ApiErrorStatuses == { ApiErrorStatus("none_returned"), ApiErrorStatus("raised") }

ApiInitState ==
    [ graph |-> None, communities |-> None, community_df |-> None,
      network_data |-> None, risk_communities |-> None,
      initialized |-> FALSE, last_updated |-> None,
      analysis_progress |-> "not_started" ]

(***************************************************************************)
(* webapp.py                                                               *)
(***************************************************************************)
WebInitState ==
    [ status |-> "not_started", progress |-> 0, message |-> "Ready to start",
      data |-> None ]

\* positions of webapp.run_analysis, in source order
WebSteps == << "load", "clean", "graph", "detect", "analyze", "export" >>

\* progress and message assigned after the given step has succeeded
WebProgressAfter(step) ==
    CASE step = "load"    -> [progress |-> 30, message |-> "Cleaning data..."]
      [] step = "clean"   -> [progress |-> 50, message |-> "Creating network graph..."]
      [] step = "graph"   -> [progress |-> 70, message |-> "Detecting communities with Leiden algorithm..."]
      [] step = "detect"  -> [progress |-> 85, message |-> "Analyzing community patterns..."]
      [] step = "analyze" -> [progress |-> 95, message |-> "Exporting visualization data..."]

WebNextStep(step) ==
    CASE step = "load"    -> "clean"
      [] step = "clean"   -> "graph"
      [] step = "graph"   -> "detect"
      [] step = "detect"  -> "analyze"
      [] step = "analyze" -> "export"

(***************************************************************************)
(* Background tasks and the event loop                                     *)
(***************************************************************************)
NewTask ==
    [ pc |-> "scheduled",     \* position of the coroutine
      detect |-> "pending",   \* what detect_communities_leiden returned: "ok" or "none"
      exported |-> FALSE,     \* export_for_d3js has written the file in this run
      outcome |-> "pending" ] \* "completed" or "failed" once the coroutine has ended

TaskIds == 1..Len(tasks)

Scheduled(t) == tasks[t].pc = "scheduled"
Ended(t)     == tasks[t].pc = "done"
Running(t)   == ~Scheduled(t) /\ ~Ended(t)

\* run_analysis as a task that gives the loop back between its statements
Yielding == FALSE

\* the loop is inside a run_analysis coroutine
Busy == \E t \in TaskIds : Running(t)

\* run_analysis executions that are scheduled or running
Active == { t \in TaskIds : ~Ended(t) }

NoResponse == [ endpoint |-> "none", ok |-> FALSE, status |-> "none", data |-> None ]

ServerInit ==
    /\ app \in {"api", "webapp"}
    /\ analysis_state = IF app = "api" THEN ApiInitState ELSE WebInitState
    /\ export_file = None
    /\ tasks = << >>
    /\ resp = NoResponse
    /\ lastCompleted = None

(***************************************************************************)
(* api.py: handlers                                                        *)
(***************************************************************************)
\* a handler without the test of analysis_state["initialized"]
ApiInitializeResponseUnchecked ==
    IF analysis_state.analysis_progress \in RunningStatuses
    THEN [ endpoint |-> "initialize", ok |-> FALSE,
           status |-> analysis_state.analysis_progress, data |-> None ]
    ELSE [ endpoint |-> "initialize", ok |-> TRUE, status |-> "initiated", data |-> None ]

\* POST /initialize.  The handler only reads analysis_state; the status is
\* first written by run_analysis itself, when the loop starts the task.
ApiInitializeResponse ==
    IF analysis_state.analysis_progress \in RunningStatuses
    THEN [ endpoint |-> "initialize", ok |-> FALSE,
           status |-> analysis_state.analysis_progress, data |-> None ]
    ELSE IF analysis_state.initialized
    THEN [ endpoint |-> "initialize", ok |-> FALSE, status |-> "completed", data |-> None ]
    ELSE [ endpoint |-> "initialize", ok |-> TRUE, status |-> "initiated", data |-> None ]

ApiInitialize ==
    /\ app = "api"
    /\ ~Busy
    /\ resp' = ApiInitializeResponse
    /\ IF resp'.ok
       THEN /\ Len(tasks) < MaxRuns
            /\ tasks' = Append(tasks, NewTask)
       ELSE tasks' = tasks
    /\ UNCHANGED <<app, analysis_state, export_file, lastCompleted, filterVars, graphVars>>

\* GET /graph/data: the export file, once initialized
ApiGraphDataResponse ==
    IF ~analysis_state.initialized
    THEN [ endpoint |-> "graph_data", ok |-> FALSE, status |-> "400", data |-> None ]
    ELSE IF export_file = None
    THEN [ endpoint |-> "graph_data", ok |-> FALSE, status |-> "500", data |-> None ]
    ELSE [ endpoint |-> "graph_data", ok |-> TRUE, status |-> "200", data |-> export_file ]

ApiGetGraphData ==
    /\ app = "api"
    /\ ~Busy
    /\ resp' = ApiGraphDataResponse
    /\ UNCHANGED <<app, analysis_state, export_file, tasks, lastCompleted, filterVars, graphVars>>

\* GET /status
ApiStatusResponse ==
    [ endpoint |-> "status", ok |-> analysis_state.initialized,
      status |-> analysis_state.analysis_progress, data |-> analysis_state.graph ]

ApiGetStatus ==
    /\ app = "api"
    /\ ~Busy
    /\ resp' = ApiStatusResponse
    /\ UNCHANGED <<app, analysis_state, export_file, tasks, lastCompleted, filterVars, graphVars>>

(***************************************************************************)
(* api.py: run_analysis                                                    *)
(***************************************************************************)
ApiPhaseIndex(p) == CHOOSE i \in 1..Len(ApiPhases) : ApiPhases[i] = p

\* line 143: the loop starts a scheduled task
ApiRunStart(t) ==
    /\ app = "api"
    /\ ~Busy
    /\ Scheduled(t)
    /\ analysis_state' = [analysis_state EXCEPT !.analysis_progress = ApiPhases[1]]
    /\ tasks' = [tasks EXCEPT ![t].pc = ApiPhases[1]]
    /\ UNCHANGED <<app, export_file, resp, lastCompleted, filterVars, graphVars>>

\* lines 147-188: the work of one phase succeeds and the next status is set
ApiRunPhase(t) ==
    /\ app = "api"
    /\ tasks[t].pc \in RunningStatuses
    /\ tasks[t].pc # "exporting_data"
    /\ LET next == ApiPhases[ApiPhaseIndex(tasks[t].pc) + 1] IN
       /\ analysis_state' = [analysis_state EXCEPT !.analysis_progress = next]
       /\ tasks' = [tasks EXCEPT ![t].pc = next,
                                 ![t].detect = IF tasks[t].pc = "detecting_communities"
                                               THEN "ok" ELSE @]
    /\ UNCHANGED <<app, export_file, resp, lastCompleted, filterVars, graphVars>>

\* lines 210-213: the except clause
ApiFail(st, cause) ==
    [st EXCEPT !.analysis_progress = ApiErrorStatus(cause)]

\* run_analysis without the test "if communities is None"
ApiRunDetectNoneUnchecked(t) ==
    /\ app = "api"
    /\ tasks[t].pc = "detecting_communities"
    /\ analysis_state' = [analysis_state EXCEPT !.analysis_progress = "analyzing_communities"]
    /\ tasks' = [tasks EXCEPT ![t].pc = "analyzing_communities", ![t].detect = "none"]
    /\ UNCHANGED <<app, export_file, resp, lastCompleted, filterVars, graphVars>>

\* lines 171-174: detect_communities_leiden returns None
ApiRunDetectNone(t) ==
    /\ app = "api"
    /\ tasks[t].pc = "detecting_communities"
    /\ analysis_state' = ApiFail(analysis_state, "none_returned")
    /\ tasks' = [tasks EXCEPT ![t].pc = "done", ![t].outcome = "failed",
                              ![t].detect = "none"]
    /\ UNCHANGED <<app, export_file, resp, lastCompleted, filterVars, graphVars>>

\* a call of the current phase raises (a missing input file, an empty
\* community table, an output directory that cannot be created, ...)
ApiRunRaise(t) ==
    /\ app = "api"
    /\ tasks[t].pc \in RunningStatuses
    /\ analysis_state' = ApiFail(analysis_state, "raised")
    /\ tasks' = [tasks EXCEPT ![t].pc = "done", ![t].outcome = "failed"]
    /\ UNCHANGED <<app, export_file, resp, lastCompleted, filterVars, graphVars>>

\* an export step that returns without having written the file
ApiRunExportUnwritten(t) ==
    /\ app = "api"
    /\ tasks[t].pc = "exporting_data"
    /\ export_file' = export_file
    /\ tasks' = [tasks EXCEPT ![t].pc = "publish"]
    /\ UNCHANGED <<app, analysis_state, resp, lastCompleted, filterVars, graphVars>>

\* lines 192-193: export_for_d3js writes the file and returns
ApiRunExport(t) ==
    /\ app = "api"
    /\ tasks[t].pc = "exporting_data"
    /\ export_file' = t
    /\ tasks' = [tasks EXCEPT ![t].pc = "publish", ![t].exported = TRUE]
    /\ UNCHANGED <<app, analysis_state, resp, lastCompleted, filterVars, graphVars>>

\* lines 196-205: one dict.update
ApiPublish(st, t) ==
    [ st EXCEPT !.graph = t, !.communities = t, !.community_df = t,
                !.network_data = t, !.risk_communities = t,
                !.initialized = TRUE, !.last_updated = t,
                !.analysis_progress = "completed" ]

ApiRunPublish(t) ==
    /\ app = "api"
    /\ tasks[t].pc = "publish"
    /\ analysis_state' = ApiPublish(analysis_state, t)
    /\ tasks' = [tasks EXCEPT ![t].pc = "done", ![t].outcome = "completed"]
    /\ lastCompleted' = t
    /\ UNCHANGED <<app, export_file, resp, filterVars, graphVars>>

(***************************************************************************)
(* webapp.py: handlers                                                     *)
(***************************************************************************)
\* POST /start-analysis: the guard, and the status written by the handler
WebStartResponse ==
    IF analysis_state.status = "loading"
    THEN [ endpoint |-> "start_analysis", ok |-> FALSE,
           status |-> "Analysis already in progress", data |-> None ]
    ELSE [ endpoint |-> "start_analysis", ok |-> TRUE,
           status |-> "Analysis started", data |-> None ]

WebStartAnalysis ==
    /\ app = "webapp"
    /\ ~Busy
    /\ resp' = WebStartResponse
    /\ IF resp'.ok
       THEN /\ Len(tasks) < MaxRuns
            /\ analysis_state' = [analysis_state EXCEPT !.status = "loading",
                                                        !.progress = 0,
                                                        !.message = "Starting analysis..."]
            /\ tasks' = Append(tasks, NewTask)
       ELSE UNCHANGED <<analysis_state, tasks>>
    /\ UNCHANGED <<app, export_file, lastCompleted, filterVars, graphVars>>

\* GET /graph-data
WebGraphDataResponse ==
    IF analysis_state.status # "completed" \/ analysis_state.data = None
    THEN [ endpoint |-> "graph_data", ok |-> FALSE,
           status |-> "No data available. Please run analysis first.", data |-> None ]
    ELSE [ endpoint |-> "graph_data", ok |-> TRUE, status |-> "200",
           data |-> analysis_state.data ]

WebGetGraphData ==
    /\ app = "webapp"
    /\ ~Busy
    /\ resp' = WebGraphDataResponse
    /\ UNCHANGED <<app, analysis_state, export_file, tasks, lastCompleted, filterVars, graphVars>>

\* GET /status
WebStatusResponse ==
    [ endpoint |-> "status", ok |-> TRUE, status |-> analysis_state.status,
      data |-> analysis_state.progress ]

WebGetStatus ==
    /\ app = "webapp"
    /\ ~Busy
    /\ resp' = WebStatusResponse
    /\ UNCHANGED <<app, analysis_state, export_file, tasks, lastCompleted, filterVars, graphVars>>

(***************************************************************************)
(* webapp.py: run_analysis                                                 *)
(***************************************************************************)
\* lines 544-548
WebRunStart(t) ==
    /\ app = "webapp"
    /\ ~Busy
    /\ Scheduled(t)
    /\ analysis_state' = [analysis_state EXCEPT !.status = "loading",
                                                !.progress = 10,
                                                !.message = "Loading NHS data..."]
    /\ tasks' = [tasks EXCEPT ![t].pc = "load"]
    /\ UNCHANGED <<app, export_file, resp, lastCompleted, filterVars, graphVars>>

\* lines 551-584: one call succeeds and the next progress and message are set
WebRunStep(t) ==
    /\ app = "webapp"
    /\ tasks[t].pc \in {"load", "clean", "graph", "detect", "analyze"}
    /\ analysis_state' = [analysis_state EXCEPT
                             !.progress = WebProgressAfter(tasks[t].pc).progress,
                             !.message = WebProgressAfter(tasks[t].pc).message]
    /\ tasks' = [tasks EXCEPT ![t].pc = WebNextStep(tasks[t].pc),
                              ![t].detect = IF tasks[t].pc = "detect" THEN "ok" ELSE @]
    /\ UNCHANGED <<app, export_file, resp, lastCompleted, filterVars, graphVars>>

\* lines 595-597: the except clause (the exception is swallowed)
WebFail(st, cause) ==
    [st EXCEPT !.status = "error",
               !.message = IF cause = "none_returned"
                           THEN "Analysis failed: Community detection failed"
                           ELSE "Analysis failed: exception"]

\* lines 571-574: detect_communities_leiden returns None
WebRunDetectNone(t) ==
    /\ app = "webapp"
    /\ tasks[t].pc = "detect"
    /\ analysis_state' = WebFail(analysis_state, "none_returned")
    /\ tasks' = [tasks EXCEPT ![t].pc = "done", ![t].outcome = "failed",
                              ![t].detect = "none"]
    /\ UNCHANGED <<app, export_file, resp, lastCompleted, filterVars, graphVars>>

\* a call of the current step raises
WebRunRaise(t) ==
    /\ app = "webapp"
    /\ tasks[t].pc \in {"load", "clean", "graph", "detect", "analyze", "export"}
    /\ analysis_state' = WebFail(analysis_state, "raised")
    /\ tasks' = [tasks EXCEPT ![t].pc = "done", ![t].outcome = "failed"]
    /\ UNCHANGED <<app, export_file, resp, lastCompleted, filterVars, graphVars>>

\* lines 587-588: export_for_d3js writes the file and returns export_data
WebRunExport(t) ==
    /\ app = "webapp"
    /\ tasks[t].pc = "export"
    /\ export_file' = t
    /\ tasks' = [tasks EXCEPT ![t].pc = "publish_status", ![t].exported = TRUE]
    /\ UNCHANGED <<app, analysis_state, resp, lastCompleted, filterVars, graphVars>>

\* line 590
WebRunPublishStatus(t) ==
    /\ app = "webapp"
    /\ tasks[t].pc = "publish_status"
    /\ analysis_state' = [analysis_state EXCEPT !.status = "completed"]
    /\ tasks' = [tasks EXCEPT ![t].pc = "publish_data"]
    /\ UNCHANGED <<app, export_file, resp, lastCompleted, filterVars, graphVars>>

\* lines 591-593
WebPublishData(st, t) ==
    [st EXCEPT !.progress = 100, !.message = "Analysis complete!", !.data = t]

WebRunPublishData(t) ==
    /\ app = "webapp"
    /\ tasks[t].pc = "publish_data"
    /\ analysis_state' = WebPublishData(analysis_state, t)
    /\ tasks' = [tasks EXCEPT ![t].pc = "done", ![t].outcome = "completed"]
    /\ lastCompleted' = t
    /\ UNCHANGED <<app, export_file, resp, filterVars, graphVars>>

ServerNext ==
    \/ ApiInitialize
    \/ ApiGetGraphData
    \/ ApiGetStatus
    \/ \E t \in TaskIds : ApiRunStart(t)
    \/ \E t \in TaskIds : ApiRunPhase(t)
    \/ \E t \in TaskIds : ApiRunDetectNone(t)
    \/ \E t \in TaskIds : ApiRunRaise(t)
    \/ \E t \in TaskIds : ApiRunExport(t)
    \/ \E t \in TaskIds : ApiRunPublish(t)
    \/ WebStartAnalysis
    \/ WebGetGraphData
    \/ WebGetStatus
    \/ \E t \in TaskIds : WebRunStart(t)
    \/ \E t \in TaskIds : WebRunStep(t)
    \/ \E t \in TaskIds : WebRunDetectNone(t)
    \/ \E t \in TaskIds : WebRunRaise(t)
    \/ \E t \in TaskIds : WebRunExport(t)
    \/ \E t \in TaskIds : WebRunPublishStatus(t)
    \/ \E t \in TaskIds : WebRunPublishData(t)

(***************************************************************************)
(* Part 2: the minimum-size filter                                         *)
(*   data_prep_leiden.detect_communities_leiden (the same text is in       *)
(*   webapp.detect_communities_leiden) and                                 *)
(*   data_prep.filter_communities_by_size                                  *)
(***************************************************************************)
MaxNodes == 5        \* nodes of the partitioned graph
MaxMinSize == 3      \* largest configured minimum community size

\* the orders in which a partitioner can list n nodes
Orders(n) == { f \in [1..n -> 1..n] : \A i, j \in 1..n : f[i] = f[j] => i = j }

\* s[from..] cut into consecutive non-empty communities after the positions in cuts
RECURSIVE Segments(_, _, _)
Segments(s, cuts, from) ==
    IF from > Len(s) THEN << >>
    ELSE LET ends == { c \in cuts : c >= from } \cup { Len(s) }
             e == CHOOSE x \in ends : \A y \in ends : x <= y
         IN << SubSeq(s, from, e) >> \o Segments(s, cuts, e + 1)

\* every partition of 1..n into an ordered list of non-empty node lists
RawPartitions ==
    UNION { { Segments(f, cuts, 1) : f \in Orders(n), cuts \in SUBSET (1..(n - 1)) }
            : n \in 1..MaxNodes }

\* the loop "for community in ...: if len(community) >= min: append else: extend";
\* large_communities and small_nodes after the first k communities
RECURSIVE SplitBySize(_, _, _)
SplitBySize(comms, min, k) ==
    IF k = 0 THEN [ large_communities |-> << >>, small_nodes |-> << >> ]
    ELSE LET before == SplitBySize(comms, min, k - 1) IN
         IF Len(comms[k]) >= min
         THEN [before EXCEPT !.large_communities = Append(@, comms[k])]
         ELSE [before EXCEPT !.small_nodes = @ \o comms[k]]

\* max(range(len(large)), key=lambda i: len(large[i])): the last of the maxima
LastLargestIdx(large) ==
    CHOOSE i \in 1..Len(large) :
        /\ \A j \in 1..Len(large) : Len(large[j]) <= Len(large[i])
        /\ \A j \in (i + 1)..Len(large) : Len(large[j]) < Len(large[i])

\* max(range(len(large)), key=lambda i: len(large[i])): Python's max returns
\* the first of the maxima
LargestIdx(large) ==
    CHOOSE i \in 1..Len(large) :
        /\ \A j \in 1..Len(large) : Len(large[j]) <= Len(large[i])
        /\ \A j \in 1..(i - 1) : Len(large[j]) < Len(large[i])

\* a merge that forgets the nodes of the small communities
MergeSmallDropping(large, small) == large

\* large_communities[largest_idx].extend(small_nodes)
MergeSmall(large, small) ==
    [large EXCEPT ![LargestIdx(large)] = @ \o small]

\* a filter that keeps only communities strictly above the minimum size
LeidenFilterStrict(comms, min) ==
    LET split == SplitBySize(comms, min + 1, Len(comms)) IN
    IF split.small_nodes # << >> /\ split.large_communities # << >>
    THEN MergeSmall(split.large_communities, split.small_nodes)
    ELSE split.large_communities

\* data_prep_leiden.py lines 245-259 (webapp.py lines 225-240)
LeidenFilter(comms, min) ==
    LET split == SplitBySize(comms, min, Len(comms)) IN
    IF split.small_nodes # << >> /\ split.large_communities # << >>
    THEN MergeSmall(split.large_communities, split.small_nodes)
    ELSE split.large_communities

\* data_prep_leiden.py lines 220-275: None without cdlib, else the filtered result
DetectCommunitiesLeiden(alg, comms, min) ==
    IF alg = "None" THEN [ kind |-> "None" ]
    ELSE [ kind |-> "result", communities |-> LeidenFilter(comms, min),
           method_name |-> "leiden_filtered" ]

\* data_prep.py lines 414-432
FilterCommunitiesBySize(comms, min) ==
    LET split == SplitBySize(comms, min, Len(comms)) IN
    [ kind |-> "result",
      communities |->
        IF split.small_nodes # << >> /\ split.large_communities # << >>
        THEN MergeSmall(split.large_communities, split.small_nodes)
        ELSE IF split.small_nodes # << >> /\ Len(split.small_nodes) >= min
        THEN Append(split.large_communities, split.small_nodes)
        ELSE split.large_communities,
      method_name |-> "filtered" ]

FilterInit ==
    /\ algorithms \in {"cdlib", "None"}
    /\ raw_communities \in RawPartitions
    /\ min_community_size \in 0..MaxMinSize
    /\ leiden_filtered = Pending
    /\ size_filtered = Pending

\* detect_communities_leiden(G, min_community_size), the partitioner having
\* returned raw_communities
CallDetectCommunitiesLeiden ==
    /\ leiden_filtered = Pending
    /\ leiden_filtered' = DetectCommunitiesLeiden(algorithms, raw_communities, min_community_size)
    /\ UNCHANGED <<algorithms, raw_communities, min_community_size, size_filtered,
                   serverVars, graphVars>>

\* filter_communities_by_size(best_result, min_community_size)
CallFilterCommunitiesBySize ==
    /\ size_filtered = Pending
    /\ size_filtered' = FilterCommunitiesBySize(raw_communities, min_community_size)
    /\ UNCHANGED <<algorithms, raw_communities, min_community_size, leiden_filtered,
                   serverVars, graphVars>>

FilterNext == CallDetectCommunitiesLeiden \/ CallFilterCommunitiesBySize

(***************************************************************************)
(* Part 3: the graph builder                                               *)
(*   data_prep_leiden.create_enhanced_bipartite_graph                      *)
(***************************************************************************)
MaxRows == 5         \* rows of the cleaned table

Patients == {"A", "B"}     \* PATIENT_KEY values
Sites    == {"A", "X"}     \* SITE_CODE_OF_TREATMENT values ("A" is also a patient key)

NaN == -1                  \* the missing value of the numeric column AGE
Variants == {1, 2}         \* the two contents a row can have besides its keys

\* a cleaned row: the two identifiers, DNA_FLAG (0 or 1), and the other
\* columns the builder reads, all of them fixed by the variant
Record(patient, site, dna, variant) ==
    [ patient |-> patient,
      site |-> site,
      dna |-> dna,
      age |-> IF variant = 1 THEN 17 ELSE NaN,
      postcode |-> IF variant = 1 THEN "AB1 2" ELSE "CD3 4",
      org_code |-> IF variant = 1 THEN "ORG1" ELSE "ORG2",
      provider_location |-> IF variant = 1 THEN "LOC1" ELSE "LOC2",
      provider_org |-> IF variant = 1 THEN "PROV1" ELSE "PROV2",
      treatment_function |-> IF variant = 1 THEN "100" ELSE "200",
      appointment_date |-> IF variant = 1 THEN "2024-01-01" ELSE "2024-02-02",
      referring_org |-> IF variant = 1 THEN "REF1" ELSE "REF2",
      outcome |-> IF variant = 1 THEN "1" ELSE "2" ]

\* the rows that differ in their keys and DNA_FLAG only
Rows == { Record(p, s, d, 1) : p \in Patients, s \in Sites, d \in {0, 1} }

Tables == UNION { [1..n -> Rows] : n \in 0..MaxRows }

\* df[column].unique(): the values in order of first appearance
RECURSIVE Unique(_, _, _)
Unique(rows, column, k) ==
    IF k = 0 THEN << >>
    ELSE LET before == Unique(rows, column, k - 1)
             v == rows[k][column]
         IN IF \E i \in 1..Len(before) : before[i] = v THEN before
            ELSE Append(before, v)

\* df[df[column] == value]: the positions of the selected rows
Selected(rows, column, value) == { i \in 1..Len(rows) : rows[i][column] = value }

\* frame.iloc[0]: the first of the selected rows
FirstRecord(rows, positions) ==
    rows[CHOOSE i \in positions : \A j \in positions : i <= j]

\* frame['DNA_FLAG'].sum() over the rows at the given positions
RECURSIVE SumDna(_, _)
SumDna(rows, positions) ==
    IF positions = {} THEN 0
    ELSE LET i == CHOOSE x \in positions : TRUE
         IN rows[i].dna + SumDna(rows, positions \ {i})

\* frame[column].nunique() over the rows at the given positions
NUnique(rows, positions, column) == Cardinality({ rows[i][column] : i \in positions })

\* a quotient of two integers, kept exact
Rate(num, den) == [ num |-> num, den |-> den ]

\* the raw proportion, without the prior
RawRate(total_dnas, total_appointments) == Rate(total_dnas, total_appointments)

\* lines 140 and 181: (total_dnas + 1) / (total_appointments + 5)
SmoothedRate(total_dnas, total_appointments) ==
    Rate(total_dnas + 1, total_appointments + 5)

\* the thresholds with >= in place of >
RiskCategoryInclusive(dna_rate) ==
    IF 10 * dna_rate.num >= 3 * dna_rate.den THEN "High"
    ELSE IF 10 * dna_rate.num >= dna_rate.den THEN "Medium"
    ELSE "Low"

\* line 169: 'High' if dna_rate > 0.3 else 'Medium' if dna_rate > 0.1 else 'Low'
\* (dna_rate is a quotient of integers below 2^31: the comparison of its
\* double with the double 0.3 or 0.1 agrees with the exact comparison)
RiskCategory(dna_rate) ==
    IF 10 * dna_rate.num > 3 * dna_rate.den THEN "High"
    ELSE IF 10 * dna_rate.num > dna_rate.den THEN "Medium"
    ELSE "Low"

\* lines 145-156: the age group of an age
AgeGroup(age) ==
    IF age = NaN THEN "Unknown"
    ELSE IF age < 18 THEN "Child"
    ELSE IF age < 35 THEN "Young Adult"
    ELSE IF age < 65 THEN "Adult"
    ELSE "Senior"

\* a patient id that is the bare key under the prefix of the sites
PatientIdSitePrefix(patient) == << "S", patient >>

PatientId(patient) == << "P", patient >>    \* f"P_{patient}"
SiteId(site)       == << "S", site >>       \* f"S_{site}"

\* the attributes of a patient node, demographics taken from the last row
PatientNodeLastRecord(rows, patient) ==
    LET patient_data == Selected(rows, "patient", patient)
        first_record == rows[CHOOSE i \in patient_data : \A j \in patient_data : j <= i]
        total_appointments == Cardinality(patient_data)
        total_dnas == SumDna(rows, patient_data)
        dna_rate == SmoothedRate(total_dnas, total_appointments)
    IN [ node_type |-> "patient",
         age |-> first_record.age,
         age_group |-> AgeGroup(first_record.age),
         postcode |-> first_record.postcode,
         org_code |-> first_record.org_code,
         total_appointments |-> total_appointments,
         total_dnas |-> total_dnas,
         dna_rate |-> dna_rate,
         unique_sites |-> NUnique(rows, patient_data, "site"),
         risk_category |-> RiskCategory(dna_rate) ]

\* lines 130-169: the attributes of one patient node
PatientNode(rows, patient) ==
    LET patient_data == Selected(rows, "patient", patient)
        first_record == FirstRecord(rows, patient_data)
        total_appointments == Cardinality(patient_data)
        total_dnas == SumDna(rows, patient_data)
        dna_rate == SmoothedRate(total_dnas, total_appointments)
    IN [ node_type |-> "patient",
         age |-> first_record.age,
         age_group |-> AgeGroup(first_record.age),
         postcode |-> first_record.postcode,
         org_code |-> first_record.org_code,
         total_appointments |-> total_appointments,
         total_dnas |-> total_dnas,
         dna_rate |-> dna_rate,
         unique_sites |-> NUnique(rows, patient_data, "site"),
         risk_category |-> RiskCategory(dna_rate) ]

\* lines 172-194: the attributes of one site node
SiteNode(rows, site) ==
    LET site_data == Selected(rows, "site", site)
        first_record == FirstRecord(rows, site_data)
        total_appointments == Cardinality(site_data)
        total_dnas == SumDna(rows, site_data)
    IN [ node_type |-> "site",
         provider_location |-> first_record.provider_location,
         org_code |-> first_record.provider_org,
         treatment_function |-> first_record.treatment_function,
         total_appointments |-> total_appointments,
         total_dnas |-> total_dnas,
         site_dna_rate |-> SmoothedRate(total_dnas, total_appointments),
         unique_patients |-> NUnique(rows, site_data, "patient") ]

\* a first edge that does not take the DNA flag of its row
NewEdgeUnflagged(row) ==
    [ weight |-> 1,
      dna_count |-> 0,
      appointment_date |-> row.appointment_date,
      treatment_function |-> row.treatment_function,
      referring_org |-> row.referring_org,
      outcome |-> row.outcome ]

\* lines 206-212: the edge a row adds when its pair has none yet
NewEdge(row) ==
    [ weight |-> 1,
      dna_count |-> row.dna,
      appointment_date |-> row.appointment_date,
      treatment_function |-> row.treatment_function,
      referring_org |-> row.referring_org,
      outcome |-> row.outcome ]

\* an update that counts the row and leaves dna_count alone
UpdatedEdgeWeightOnly(edge, row) ==
    [edge EXCEPT !.weight = @ + 1]

\* an update that also takes the other fields of the row
UpdatedEdgeOverwriting(edge, row) ==
    [ weight |-> edge.weight + 1,
      dna_count |-> edge.dna_count + row.dna,
      appointment_date |-> row.appointment_date,
      treatment_function |-> row.treatment_function,
      referring_org |-> row.referring_org,
      outcome |-> row.outcome ]

\* lines 203-204: the edge of a pair after one more row of that pair
UpdatedEdge(edge, row) ==
    [edge EXCEPT !.weight = @ + 1, !.dna_count = @ + row.dna]

\* lines 197-212: the edges after the first k rows; the graph is undirected,
\* so G.has_edge(u, v) also finds an edge stored as (v, u)
RECURSIVE EdgesAfter(_, _)
EdgesAfter(rows, k) ==
    IF k = 0 THEN << >>
    ELSE LET before == EdgesAfter(rows, k - 1)
             patient_node == PatientId(rows[k].patient)
             site_node == SiteId(rows[k].site)
             e == IF << site_node, patient_node >> \in DOMAIN before
                  THEN << site_node, patient_node >>
                  ELSE << patient_node, site_node >>
         IN IF e \in DOMAIN before
            THEN [before EXCEPT ![e] = UpdatedEdge(@, rows[k])]
            ELSE [ x \in DOMAIN before \cup {e} |->
                     IF x = e THEN NewEdge(rows[k]) ELSE before[x] ]

\* lines 121-218; a site added under the id of a patient node replaces
\* that node's attributes, as G.add_node does
CreateEnhancedBipartiteGraph(rows) ==
    LET patients == Unique(rows, "patient", Len(rows))
        sites == Unique(rows, "site", Len(rows))
        patient_ids == [ i \in 1..Len(patients) |-> PatientId(patients[i]) ]
        site_ids == [ i \in 1..Len(sites) |-> SiteId(sites[i]) ]
        site_id_set == { site_ids[i] : i \in 1..Len(sites) }
        edges == EdgesAfter(rows, Len(rows))
    IN [ kind |-> "graph",
         node_order |-> patient_ids \o site_ids,
         nodes |-> [ id \in { patient_ids[i] : i \in 1..Len(patients) }
                            \cup site_id_set |->
                       IF id \in site_id_set THEN SiteNode(rows, id[2])
                       ELSE PatientNode(rows, id[2]) ],
         edges |-> [ e \in DOMAIN edges |->
                       [ weight |-> edges[e].weight,
                         dna_count |-> edges[e].dna_count,
                         dna_rate |-> Rate(edges[e].dna_count, edges[e].weight),
                         appointment_date |-> edges[e].appointment_date,
                         treatment_function |-> edges[e].treatment_function,
                         referring_org |-> edges[e].referring_org,
                         outcome |-> edges[e].outcome ] ] ]

\* the pipeline's other values, before any of its steps has run
PipelineIdle ==
    /\ sampled_df = << >>
    /\ network_data = Pending
    /\ communities = Pending
    /\ community_df = Pending
    /\ risk_communities = Pending
    /\ export_data = Pending
    /\ insights = Pending

GraphInit ==
    /\ df \in Tables
    /\ G = Pending
    /\ PipelineIdle

\* G = create_enhanced_bipartite_graph(network_data)
CallCreateGraph ==
    /\ G = Pending
    /\ G' = CreateEnhancedBipartiteGraph(df)
    /\ UNCHANGED <<df, pipelineVars, serverVars, filterVars>>

GraphNext == CallCreateGraph

(***************************************************************************)
(* Part 4: the pipeline around the graph builder                           *)
(*   data_prep_leiden.clean_for_network, analyze_community_dna_patterns,   *)
(*   calculate_community_risk_score, identify_high_low_risk_communities;   *)
(*   d3_export.export_for_d3js; the order of api.run_analysis              *)
(***************************************************************************)
MaxRaw == 2          \* rows of the table before cleaning
MaxRecords == 3      \* rows of a cleaned table whose rows differ in every column
MaxPatients == 4     \* patient nodes of a graph handed to the scoring

NA == "NA"           \* the missing value of a string column

\* ATTENDED_OR_DID_NOT_ATTEND: missing, did not attend, late and not seen, seen
AttendanceCodes == {NA, "3", "7", "5"}

\* a row before cleaning: it has the attendance code and no DNA_FLAG yet
RawRecord(patient, site, code) ==
    LET r == Record(patient, site, 0, 1) IN
    [ f \in (DOMAIN r \ {"dna"}) \cup {"attendance"} |->
        IF f = "attendance" THEN code ELSE r[f] ]

RawRows == { RawRecord(p, s, c) : p \in Patients \cup {NA}, s \in Sites \cup {NA},
                                  c \in AttendanceCodes }

RawTables == UNION { [1..n -> RawRows] : n \in 0..MaxRaw }

\* a filter that drops a row only when both identifiers are missing
HasAnyIdentifier(row) == row.patient # NA \/ row.site # NA

\* line 97: dropna(subset=['PATIENT_KEY', 'SITE_CODE_OF_TREATMENT']) keeps the row
HasIdentifiers(row) == row.patient # NA /\ row.site # NA

\* line 104: fillna('0')
FillNa(code) == IF code = NA THEN "0" ELSE code

\* a flag for code '3' alone
DnaFlagThreeOnly(code) == IF code = "3" THEN 1 ELSE 0

\* lines 109-112: ((code == '3') | (code == '7')).astype(int)
DnaFlag(code) == IF code = "3" \/ code = "7" THEN 1 ELSE 0

\* lines 104-112 on one row
CleanRow(row) ==
    [ f \in DOMAIN row \cup {"dna"} |->
        IF f = "dna" THEN DnaFlag(FillNa(row.attendance))
        ELSE IF f = "attendance" THEN FillNa(row.attendance)
        ELSE row[f] ]

\* lines 84-119
CleanForNetwork(rows) ==
    LET kept == SelectSeq(rows, HasIdentifiers)
    IN [ i \in 1..Len(kept) |-> CleanRow(kept[i]) ]

\* the rows whose other columns vary: variant 1 attended, variant 2 did not
RecordRows == { Record(p, s, v - 1, v) : p \in Patients, s \in Sites, v \in Variants }

RecordTables == UNION { [1..n -> RecordRows] : n \in 0..MaxRecords }

\* exact arithmetic on quotients with a positive denominator
RECURSIVE Gcd(_, _)
Gcd(a, b) == IF b = 0 THEN a ELSE Gcd(b, a % b)

Reduced(r) == LET g == Gcd(r.num, r.den) IN Rate(r.num \div g, r.den \div g)
Plus(r, s) == Reduced(Rate(r.num * s.den + s.num * r.den, r.den * s.den))
Times(r, s) == Reduced(Rate(r.num * s.num, r.den * s.den))
Leq(r, s) == r.num * s.den <= s.num * r.den
Zero == Rate(0, 1)

RECURSIVE SumRates(_, _)
SumRates(values, k) ==
    IF k = 0 THEN Zero ELSE Plus(SumRates(values, k - 1), values[k])

RECURSIVE SumInts(_, _)
SumInts(values, k) ==
    IF k = 0 THEN 0 ELSE SumInts(values, k - 1) + values[k]

\* np.mean of a non-empty list of quotients, and of integers
Mean(values) == Times(SumRates(values, Len(values)), Rate(1, Len(values)))
MeanInt(values) == Reduced(Rate(SumInts(values, Len(values)), Len(values)))

\* the values in ascending order
RECURSIVE SortedRates(_, _)
SortedRates(values, k) ==
    IF k = 0 THEN << >>
    ELSE LET before == SortedRates(values, k - 1)
             v == values[k]
         IN SelectSeq(before, LAMBDA x : Leq(x, v)) \o << v >>
              \o SelectSeq(before, LAMBDA x : ~Leq(x, v))

\* Series.quantile(qnum / qden) of a non-empty list: linear interpolation
\* between the two order statistics around position (n - 1) * q
Quantile(values, qnum, qden) ==
    LET sorted == SortedRates(values, Len(values))
        h == (Len(values) - 1) * qnum
        lo == (h \div qden) + 1
        rest == h % qden
    IN IF rest = 0 THEN Reduced(sorted[lo])
       ELSE Plus(Times(sorted[lo], Rate(qden - rest, qden)),
                 Times(sorted[lo + 1], Rate(rest, qden)))

\* [n for n in community if G.nodes[n]['node_type'] == type]
NodesOfType(graph, community, type) ==
    SelectSeq(community, LAMBDA n : graph.nodes[n].node_type = type)

\* Counter(values)[v]
Count(values, v) == Cardinality({ i \in 1..Len(values) : values[i] = v })

\* Counter(values): the labels that occur, each with its count
Counter(values) ==
    [ v \in { values[i] : i \in 1..Len(values) } |-> Count(values, v) ]

\* sum(counter.values())
RECURSIVE SumCounts(_, _)
SumCounts(counter, keys) ==
    IF keys = {} THEN 0
    ELSE LET k == CHOOSE x \in keys : TRUE
         IN counter[k] + SumCounts(counter, keys \ {k})

\* the label with the highest count that was inserted last
DominantAgeGroupLast(age_groups) ==
    IF Len(age_groups) = 0 THEN "Unknown"
    ELSE LET n == Len(age_groups)
             best(i) == \A j \in 1..n :
                          Count(age_groups, age_groups[j]) <= Count(age_groups, age_groups[i])
             firstOf(i) == \A j \in 1..(i - 1) : age_groups[j] # age_groups[i]
             last == CHOOSE i \in 1..n :
                       /\ best(i) /\ firstOf(i)
                       /\ \A j \in (i + 1)..n : ~(best(j) /\ firstOf(j))
         IN age_groups[last]

\* line 302: max(Counter(age_groups).items(), key=count)[0]; a Counter lists
\* its labels in order of first appearance, and max returns the first of
\* the items with the highest count
DominantAgeGroup(age_groups) ==
    IF Len(age_groups) = 0 THEN "Unknown"
    ELSE LET n == Len(age_groups)
             best(i) == \A j \in 1..n :
                          Count(age_groups, age_groups[j]) <= Count(age_groups, age_groups[i])
             first == CHOOSE i \in 1..n : best(i) /\ \A j \in 1..(i - 1) : ~best(j)
         IN age_groups[first]

\* the score with the two weights exchanged
CalculateCommunityRiskScoreSwapped(dna_rates, risk_counts) ==
    IF Len(dna_rates) = 0 THEN Zero
    ELSE LET avg_dna == Mean(dna_rates)
             total_patients == IF DOMAIN risk_counts # {}
                               THEN SumCounts(risk_counts, DOMAIN risk_counts) ELSE 1
             high == IF "High" \in DOMAIN risk_counts THEN risk_counts["High"] ELSE 0
         IN Plus(Times(avg_dna, Rate(3, 10)), Times(Rate(high, total_patients), Rate(7, 10)))

\* lines 346-358 (webapp.py 291-295 computes the same expression in place)
CalculateCommunityRiskScore(dna_rates, risk_counts) ==
    IF Len(dna_rates) = 0 THEN Zero
    ELSE LET avg_dna == Mean(dna_rates)
             total_patients == IF DOMAIN risk_counts # {}
                               THEN SumCounts(risk_counts, DOMAIN risk_counts) ELSE 1
             high == IF "High" \in DOMAIN risk_counts THEN risk_counts["High"] ELSE 0
         IN Plus(Times(avg_dna, Rate(7, 10)), Times(Rate(high, total_patients), Rate(3, 10)))

\* counter.get(label, 0)
Get(counter, label) == IF label \in DOMAIN counter THEN counter[label] ELSE 0

\* a loop that scores every community
HasPatientsUnchecked(graph, community) == TRUE

\* line 291: the community is scored (the loop does not `continue`)
HasPatients(graph, community) ==
    Len(NodesOfType(graph, community, "patient")) # 0

\* lines 288-327: the entry of the community at position i (from 0);
\* std_dna_rate is a square root and is left out, nothing reads it
CommunityStats(graph, community, i) ==
    LET patients_in_comm == NodesOfType(graph, community, "patient")
        sites_in_comm == NodesOfType(graph, community, "site")
        attr(ids, name) == [ k \in 1..Len(ids) |-> graph.nodes[ids[k]][name] ]
        community_dna_rates == attr(patients_in_comm, "dna_rate")
        community_ages == SelectSeq(attr(patients_in_comm, "age"), LAMBDA a : a # NaN)
        community_appointments == attr(patients_in_comm, "total_appointments")
        age_groups == attr(patients_in_comm, "age_group")
        risk_counts == Counter(attr(patients_in_comm, "risk_category"))
        site_dna_rates == attr(sites_in_comm, "site_dna_rate")
    IN [ community_id |-> i,
         size |-> Len(community),
         patients_count |-> Len(patients_in_comm),
         sites_count |-> Len(sites_in_comm),
         avg_dna_rate |-> IF Len(community_dna_rates) # 0
                          THEN Mean(community_dna_rates) ELSE Zero,
         median_dna_rate |-> IF Len(community_dna_rates) # 0
                             THEN Quantile(community_dna_rates, 1, 2) ELSE Zero,
         avg_age |-> IF Len(community_ages) # 0
                     THEN MeanInt(community_ages) ELSE [ kind |-> "None" ],
         dominant_age_group |-> DominantAgeGroup(age_groups),
         avg_appointments |-> IF Len(community_appointments) # 0
                              THEN MeanInt(community_appointments) ELSE Zero,
         high_risk_patients |-> Get(risk_counts, "High"),
         medium_risk_patients |-> Get(risk_counts, "Medium"),
         low_risk_patients |-> Get(risk_counts, "Low"),
         avg_site_dna_rate |-> IF Len(site_dna_rates) # 0
                               THEN Mean(site_dna_rates) ELSE Zero,
         risk_score |-> CalculateCommunityRiskScore(community_dna_rates, risk_counts) ]

\* lines 284-327: community_stats after the first k communities
RECURSIVE StatsAfter(_, _, _)
StatsAfter(graph, comms, k) ==
    IF k = 0 THEN << >>
    ELSE LET before == StatsAfter(graph, comms, k - 1)
         IN IF HasPatients(graph, comms[k])
            THEN Append(before, CommunityStats(graph, comms[k], k - 1))
            ELSE before

\* lines 280-344: every outcome of the call. sort_values('risk_score',
\* ascending=False) does not fix the order of equal scores, and raises
\* KeyError on the frame of an empty list, which has no columns
AnalyzeCommunityDnaPatterns(graph, comms) ==
    LET community_stats == StatsAfter(graph, comms, Len(comms))
        n == Len(community_stats)
        descending == { f \in Orders(n) :
                          \A i \in 1..(n - 1) :
                             Leq(community_stats[f[i + 1]].risk_score,
                                 community_stats[f[i]].risk_score) }
    IN IF n = 0 THEN { [ kind |-> "KeyError" ] }
       ELSE { [ kind |-> "frame",
                rows |-> [ i \in 1..n |-> community_stats[f[i]] ] ] : f \in descending }

\* community_df['risk_score'] as a list
RiskScores(rows) == [ i \in 1..Len(rows) |-> rows[i].risk_score ]

\* lines 360-409 with use_percentiles=True, and the two thresholds it used
IdentifyHighLowRiskCommunities(rows) ==
    LET high_threshold == Quantile(RiskScores(rows), 3, 4)
        low_threshold == Quantile(RiskScores(rows), 1, 4)
    IN [ kind |-> "risk",
         high_threshold |-> high_threshold,
         low_threshold |-> low_threshold,
         high_risk |-> SelectSeq(rows, LAMBDA c : Leq(high_threshold, c.risk_score)),
         low_risk |-> SelectSeq(rows, LAMBDA c : Leq(c.risk_score, low_threshold)),
         medium_risk |-> SelectSeq(rows, LAMBDA c :
                            /\ ~Leq(c.risk_score, low_threshold)
                            /\ ~Leq(high_threshold, c.risk_score)) ]

\* a level that tests the low threshold first
RiskLevelLowFirst(risk_score, high_threshold, low_threshold) ==
    IF Leq(risk_score, low_threshold) THEN "Low"
    ELSE IF Leq(high_threshold, risk_score) THEN "High"
    ELSE "Medium"

\* d3_export.py lines 45-50 and 127-132
RiskLevel(risk_score, high_threshold, low_threshold) ==
    IF Leq(high_threshold, risk_score) THEN "High"
    ELSE IF Leq(risk_score, low_threshold) THEN "Low"
    ELSE "Medium"

\* d3_export.py lines 21-24 and 38: the last community that lists the node, or -1
NodeToCommunity(comms, node_id) ==
    LET holding == { i \in 1..Len(comms) :
                       \E k \in 1..Len(comms[i]) : comms[i][k] = node_id }
    IN IF holding = {} THEN -1
       ELSE (CHOOSE i \in holding : \A j \in holding : j <= i) - 1

\* d3_export.py lines 36-89: one exported node
ExportNode(graph, comms, rows, high_threshold, low_threshold, node_id) ==
    LET node_data == graph.nodes[node_id]
        community_id == NodeToCommunity(comms, node_id)
        comm_data == SelectSeq(rows, LAMBDA c : c.community_id = community_id)
        risk_level == IF community_id >= 0 /\ Len(comm_data) > 0
                      THEN RiskLevel(comm_data[1].risk_score, high_threshold, low_threshold)
                      ELSE "Medium"
    IN IF node_data.node_type = "patient"
       THEN [ id |-> node_id, type |-> "patient", community |-> community_id,
              risk_level |-> risk_level,
              dna_rate |-> node_data.dna_rate,
              age_group |-> node_data.age_group,
              age |-> node_data.age,
              appointments |-> node_data.total_appointments,
              dna_count |-> node_data.total_dnas,
              unique_sites |-> node_data.unique_sites,
              postcode |-> node_data.postcode,
              risk_category |-> node_data.risk_category ]
       ELSE [ id |-> node_id, type |-> "site", community |-> community_id,
              risk_level |-> risk_level,
              dna_rate |-> node_data.site_dna_rate,
              location |-> node_data.provider_location,
              appointments |-> node_data.total_appointments,
              dna_count |-> node_data.total_dnas,
              unique_patients |-> node_data.unique_patients,
              treatment_function |-> node_data.treatment_function,
              org_code |-> node_data.org_code ]

\* d3_export.py lines 6-182; generated_at is the time of the call and the
\* order of the links is that of the edge keys, both left out
ExportForD3js(graph, comms, rows) ==
    LET high_threshold == Quantile(RiskScores(rows), 3, 4)
        low_threshold == Quantile(RiskScores(rows), 1, 4)
        high_risk_count == Len(SelectSeq(rows, LAMBDA c : Leq(high_threshold, c.risk_score)))
        low_risk_count == Len(SelectSeq(rows, LAMBDA c : Leq(c.risk_score, low_threshold)))
        ids == DOMAIN graph.nodes
        nodes == [ k \in 1..Len(graph.node_order) |->
                     ExportNode(graph, comms, rows, high_threshold, low_threshold,
                                graph.node_order[k]) ]
        links == [ e \in DOMAIN graph.edges |->
                     [ source |-> e[1], target |-> e[2],
                       weight |-> graph.edges[e].weight,
                       dna_count |-> graph.edges[e].dna_count,
                       dna_rate |-> graph.edges[e].dna_rate,
                       strength |-> IF graph.edges[e].weight >= 10 THEN Rate(1, 1)
                                    ELSE Rate(graph.edges[e].weight, 10),
                       treatment_function |-> graph.edges[e].treatment_function,
                       outcome |-> graph.edges[e].outcome ] ]
        communities_data ==
            [ i \in 1..Len(rows) |->
                [ id |-> rows[i].community_id,
                  patients |-> rows[i].patients_count,
                  sites |-> rows[i].sites_count,
                  avg_dna_rate |-> rows[i].avg_dna_rate,
                  risk_score |-> rows[i].risk_score,
                  dominant_age |-> rows[i].dominant_age_group,
                  high_risk_patients |-> rows[i].high_risk_patients,
                  medium_risk_patients |-> rows[i].medium_risk_patients,
                  low_risk_patients |-> rows[i].low_risk_patients,
                  risk_level |-> RiskLevel(rows[i].risk_score, high_threshold, low_threshold) ] ]
        levels == [ i \in 1..Len(rows) |-> communities_data[i].risk_level ]
        patient_nodes == SelectSeq(nodes, LAMBDA n : n.type = "patient")
    IN [ kind |-> "export",
         metadata |-> [ total_nodes |-> Cardinality(ids),
                        total_edges |-> Cardinality(DOMAIN graph.edges),
                        total_communities |-> Len(comms),
                        high_risk_communities |-> high_risk_count,
                        medium_risk_communities |-> Len(rows) - high_risk_count - low_risk_count,
                        low_risk_communities |-> low_risk_count,
                        thresholds |-> [ high |-> high_threshold, low |-> low_threshold ],
                        algorithm |-> "leiden" ],
         nodes |-> nodes,
         links |-> links,
         communities |-> communities_data,
         summary |-> [ total_patients |-> Len(patient_nodes),
                       total_sites |-> Len(SelectSeq(nodes, LAMBDA n : n.type = "site")),
                       overall_dna_rate |-> Mean([ k \in 1..Len(nodes) |-> nodes[k].dna_rate ]),
                       age_groups |-> Counter([ k \in 1..Len(patient_nodes) |->
                                                  patient_nodes[k].age_group ]),
                       risk_distribution |-> [ High |-> Count(levels, "High"),
                                               Medium |-> Count(levels, "Medium"),
                                               Low |-> Count(levels, "Low") ] ] ]

\* f"{rate:.1%}": the rate in tenths of a percent, rounded to the nearest
\* (to the even one when it is halfway)
FormatPercent(rate) ==
    LET q == (1000 * rate.num) \div rate.den
        twice == 2 * ((1000 * rate.num) % rate.den)
    IN IF twice > rate.den \/ (twice = rate.den /\ q % 2 = 1) THEN q + 1 ELSE q

\* insights for the communities of the low tier
InsightCommunitiesLow(risk) == risk.low_risk

\* data_prep_leiden.py line 418: the communities that get an insight of their own
InsightCommunities(risk) == risk.high_risk

\* lines 419-426
HighRiskInsight(comm) ==
    [ community_id |-> comm.community_id,
      type |-> "High Risk",
      priority |-> "Urgent",
      patients_affected |-> comm.patients_count,
      key_issue |-> [ text |-> "High DNA rate", percent |-> FormatPercent(comm.avg_dna_rate) ],
      recommendation |-> [ text |-> "Focus intervention on", age_group |-> comm.dominant_age_group ] ]

\* a test that also accepts 0.2 itself
ReachesSiteThreshold(avg_site_dna) == Leq(Rate(2, 10), avg_site_dna)

\* line 432: avg_site_dna > 0.2
ExceedsSiteThreshold(avg_site_dna) == ~Leq(avg_site_dna, Rate(2, 10))

\* lines 429-438: the site insight, or none
SiteInsights(risk) ==
    LET high_risk_comms == risk.high_risk
        avg_site_dna == Mean([ i \in 1..Len(high_risk_comms) |->
                                 high_risk_comms[i].avg_site_dna_rate ])
    IN IF Len(high_risk_comms) > 0 /\ ExceedsSiteThreshold(avg_site_dna)
       THEN << [ type |-> "Site Performance",
                 priority |-> "High",
                 key_issue |-> [ text |-> "Sites in high-risk communities",
                                 percent |-> FormatPercent(avg_site_dna) ],
                 recommendation |-> "Review site capacity and scheduling practices" ] >>
       ELSE << >>

\* line 441: groupby('dominant_age_group')['risk_score'].mean() for one label
AgeGroupRisk(rows, label) ==
    LET of_label == SelectSeq(rows, LAMBDA c : c.dominant_age_group = label)
    IN Mean(RiskScores(of_label))

\* lines 441-449: the demographic insight; sort_values does not fix which
\* of several labels with the same highest mean comes first
DemographicInsights(rows) ==
    LET labels == { rows[i].dominant_age_group : i \in 1..Len(rows) }
        highest == { a \in labels :
                       \A b \in labels : Leq(AgeGroupRisk(rows, b), AgeGroupRisk(rows, a)) }
    IN IF labels = {} THEN { << >> }
       ELSE { << [ type |-> "Demographic Pattern",
                   priority |-> "Medium",
                   key_issue |-> [ text |-> "patients show highest community risk",
                                   age_group |-> highest_risk_age ],
                   recommendation |-> [ text |-> "Develop targeted engagement strategies for",
                                        age_group |-> highest_risk_age ] ] >>
              : highest_risk_age \in highest }

\* lines 411-459: every outcome of the call
GenerateCommunityInsights(rows, risk) ==
    LET selected == InsightCommunities(risk)
        high_risk_insights == [ i \in 1..Len(selected) |-> HighRiskInsight(selected[i]) ]
    IN { [ kind |-> "insights", insights |-> high_risk_insights \o SiteInsights(risk) \o d ] :
           d \in DemographicInsights(rows) }

\* the keys of the patients of a graph handed to the scoring, in node order
PatientKeys == << "A", "B", "C", "D", "E", "F" >>

\* what the builder derives from a patient's rows: the number of rows, the
\* number of DNA rows, and the age on the first row
ScoreKinds == { [ appointments |-> 5, dnas |-> 0, age |-> 17 ],
                [ appointments |-> 5, dnas |-> 1, age |-> 40 ],
                [ appointments |-> 45, dnas |-> 44, age |-> NaN ] }

RECURSIVE SumField(_, _, _)
SumField(kinds, field, k) ==
    IF k = 0 THEN 0 ELSE SumField(kinds, field, k - 1) + kinds[k][field]

\* the graph the builder returns for patients of the given kinds, all of
\* whose appointments are at site "X"
ScoreGraph(kinds) ==
    LET n == Len(kinds)
        patient_ids == [ i \in 1..n |-> PatientId(PatientKeys[i]) ]
        index(id) == CHOOSE i \in 1..n : patient_ids[i] = id
        first_record == Record("A", "X", 0, 1)
    IN [ kind |-> "graph",
         node_order |-> Append(patient_ids, SiteId("X")),
         nodes |-> [ id \in { patient_ids[i] : i \in 1..n } \cup { SiteId("X") } |->
                       IF id = SiteId("X")
                       THEN [ node_type |-> "site",
                              provider_location |-> first_record.provider_location,
                              org_code |-> first_record.provider_org,
                              treatment_function |-> first_record.treatment_function,
                              total_appointments |-> SumField(kinds, "appointments", n),
                              total_dnas |-> SumField(kinds, "dnas", n),
                              site_dna_rate |-> SmoothedRate(SumField(kinds, "dnas", n),
                                                             SumField(kinds, "appointments", n)),
                              unique_patients |-> n ]
                       ELSE LET k == kinds[index(id)]
                                dna_rate == SmoothedRate(k.dnas, k.appointments)
                            IN [ node_type |-> "patient",
                                 age |-> k.age,
                                 age_group |-> AgeGroup(k.age),
                                 postcode |-> first_record.postcode,
                                 org_code |-> first_record.org_code,
                                 total_appointments |-> k.appointments,
                                 total_dnas |-> k.dnas,
                                 dna_rate |-> dna_rate,
                                 unique_sites |-> 1,
                                 risk_category |-> RiskCategory(dna_rate) ] ],
         edges |-> [ e \in { << patient_ids[i], SiteId("X") >> : i \in 1..n } |->
                       LET k == kinds[index(e[1])]
                       IN [ weight |-> k.appointments,
                            dna_count |-> k.dnas,
                            dna_rate |-> Rate(k.dnas, k.appointments),
                            appointment_date |-> first_record.appointment_date,
                            treatment_function |-> first_record.treatment_function,
                            referring_org |-> first_record.referring_org,
                            outcome |-> first_record.outcome ] ] ]

ScoreGraphs == { ScoreGraph(kinds) :
                   kinds \in UNION { [1..n -> ScoreKinds] : n \in 1..MaxPatients } }

\* the partitions a partitioner can return for the graph: its nodes in
\* graph order, or the last node first, cut into consecutive communities
PartitionsOf(graph) ==
    LET n == Len(graph.node_order)
        orders == IF n = 0 THEN { << >> }
                  ELSE { graph.node_order,
                         << graph.node_order[n] >> \o SubSeq(graph.node_order, 1, n - 1) }
    IN { [ kind |-> "result", communities |-> Segments(order, cuts, 1) ] :
           order \in orders, cuts \in SUBSET (1..(n - 1)) }

\* network_data = clean_for_network(sampled_df)
CallCleanForNetwork ==
    /\ network_data = Pending
    /\ network_data' = [ kind |-> "table", rows |-> CleanForNetwork(sampled_df) ]
    /\ UNCHANGED <<df, G, sampled_df, communities, community_df, risk_communities,
                   export_data, insights, serverVars, filterVars>>

\* G = create_enhanced_bipartite_graph(network_data)
CallCreateGraphOnNetworkData ==
    /\ network_data.kind = "table"
    /\ G = Pending
    /\ df' = network_data.rows
    /\ G' = CreateEnhancedBipartiteGraph(network_data.rows)
    /\ UNCHANGED <<pipelineVars, serverVars, filterVars>>

\* communities = detect_communities_leiden(G, min_community_size=10):
\* a partition of the nodes, or None
CallDetectCommunities ==
    /\ G.kind = "graph"
    /\ communities = Pending
    /\ communities' \in PartitionsOf(G) \cup { [ kind |-> "None" ] }
    /\ UNCHANGED <<df, G, sampled_df, network_data, community_df, risk_communities,
                   export_data, insights, serverVars, filterVars>>

\* community_df = analyze_community_dna_patterns(G, communities, network_data)
CallAnalyze ==
    /\ G.kind = "graph"
    /\ communities.kind = "result"
    /\ community_df = Pending
    /\ community_df' \in AnalyzeCommunityDnaPatterns(G, communities.communities)
    /\ UNCHANGED <<df, G, sampled_df, network_data, communities, risk_communities,
                   export_data, insights, serverVars, filterVars>>

\* risk_communities = identify_high_low_risk_communities(community_df)
CallIdentify ==
    /\ community_df.kind = "frame"
    /\ risk_communities = Pending
    /\ risk_communities' = IdentifyHighLowRiskCommunities(community_df.rows)
    /\ UNCHANGED <<df, G, sampled_df, network_data, communities, community_df,
                   export_data, insights, serverVars, filterVars>>

\* export_data = export_for_d3js(G, communities, community_df, ...)
CallExport ==
    /\ risk_communities.kind = "risk"
    /\ export_data = Pending
    /\ export_data' = ExportForD3js(G, communities.communities, community_df.rows)
    /\ UNCHANGED <<df, G, sampled_df, network_data, communities, community_df,
                   risk_communities, insights, serverVars, filterVars>>

\* api.py lines 343-358, GET /insights once the run has completed:
\* insights = generate_community_insights(community_df, risk_communities)
CallGenerateInsights ==
    /\ export_data.kind = "export"
    /\ insights = Pending
    /\ insights' \in GenerateCommunityInsights(community_df.rows, risk_communities)
    /\ UNCHANGED <<df, G, sampled_df, network_data, communities, community_df,
                   risk_communities, export_data, serverVars, filterVars>>

CleanInit ==
    /\ sampled_df \in RawTables
    /\ network_data = Pending
    /\ df = << >>
    /\ G = Pending
    /\ communities = Pending
    /\ community_df = Pending
    /\ risk_communities = Pending
    /\ export_data = Pending
    /\ insights = Pending

CleanNext == CallCleanForNetwork \/ CallCreateGraphOnNetworkData

RecordsInit ==
    /\ df \in RecordTables
    /\ G = Pending
    /\ PipelineIdle

RecordsNext ==
    \/ CallCreateGraph
    \/ CallDetectCommunities
    \/ CallAnalyze
    \/ CallIdentify
    \/ CallExport

ScoreInit ==
    /\ df = << >>
    /\ G \in ScoreGraphs
    /\ sampled_df = << >>
    /\ network_data = Pending
    /\ communities \in PartitionsOf(G)
    /\ community_df = Pending
    /\ risk_communities = Pending
    /\ export_data = Pending
    /\ insights = Pending

ScoreNext == CallAnalyze \/ CallIdentify \/ CallExport \/ CallGenerateInsights

\* the parts a specification does not exercise stay at these values
ServerIdle ==
    /\ app = "none"
    /\ analysis_state = ApiInitState
    /\ export_file = None
    /\ tasks = << >>
    /\ resp = NoResponse
    /\ lastCompleted = None

FilterIdle ==
    /\ algorithms = "cdlib"
    /\ raw_communities = << >>
    /\ min_community_size = 0
    /\ leiden_filtered = Pending
    /\ size_filtered = Pending

GraphIdle ==
    /\ df = << >>
    /\ G = Pending
    /\ PipelineIdle

Init == ServerInit /\ FilterIdle /\ GraphIdle
Next == ServerNext
Spec == Init /\ [][Next]_vars

InitFilter == ServerIdle /\ FilterInit /\ GraphIdle
SpecFilter == InitFilter /\ [][FilterNext]_vars

InitGraph == ServerIdle /\ FilterIdle /\ GraphInit
SpecGraph == InitGraph /\ [][GraphNext]_vars

InitClean == ServerIdle /\ FilterIdle /\ CleanInit
SpecClean == InitClean /\ [][CleanNext]_vars

InitRecords == ServerIdle /\ FilterIdle /\ RecordsInit
SpecRecords == InitRecords /\ [][RecordsNext]_vars

InitScore == ServerIdle /\ FilterIdle /\ ScoreInit
SpecScore == InitScore /\ [][ScoreNext]_vars

(***************************************************************************)
(* Claims about the host services (specification Spec)                     *)
(***************************************************************************)
Failed == IF app = "api" THEN analysis_state.analysis_progress \in ApiErrorStatuses
          ELSE analysis_state.status = "error"

Completed == IF app = "api" THEN analysis_state.analysis_progress = "completed"
             ELSE analysis_state.status = "completed"

\* C1: at no time is more than one run_analysis execution scheduled or
\* running, in either service.
C1_AtMostOneActiveRun == Cardinality(Active) <= 1

\* what GET /graph-data (webapp) or GET /graph/data (api) answers now
GraphDataResponse == IF app = "api" THEN ApiGraphDataResponse ELSE WebGraphDataResponse

\* C2: whenever a request can be served after some run has completed, the
\* graph-data endpoint returns the result of the last completed run (also
\* while a new run is pending and after a new run has failed).
C2_LastResultStaysReadable ==
    (~Busy /\ lastCompleted # None) =>
        (GraphDataResponse.ok /\ GraphDataResponse.data = lastCompleted)

\* C3: whenever a request can be served and the status reads "completed",
\* the result of the run that completed is present: the export data in
\* webapp.py; graph, communities and community_df in api.py.
C3_CompletedImpliesResult ==
    (~Busy /\ Completed) =>
        /\ lastCompleted # None
        /\ IF app = "api"
           THEN /\ analysis_state.graph = lastCompleted
                /\ analysis_state.communities = lastCompleted
                /\ analysis_state.community_df = lastCompleted
           ELSE analysis_state.data = lastCompleted

\* a reader has been answered with the data of a completed webapp run
C3_Witness ==
    /\ app = "webapp"
    /\ ~Busy
    /\ analysis_state.status = "completed"
    /\ resp.endpoint = "graph_data"
    /\ resp.ok
    /\ resp.data = lastCompleted

C4_Never ==
    \A t \in TaskIds :
        tasks[t].detect = "none" =>
            /\ tasks[t].pc = "done"
            /\ tasks[t].outcome = "failed"
            /\ ~tasks[t].exported

C4_Step ==
    \A t \in TaskIds :
        (tasks[t].detect # "none" /\ tasks'[t].detect = "none") =>
            /\ Failed'
            /\ export_file' = export_file

\* C4: a run in which detect_communities_leiden returns None ends at that
\* step with the failed status and without writing the export file; it
\* never calls export_for_d3js and never reaches completed.
C4_BackendUnavailableFails == []C4_Never /\ [][C4_Step]_vars

\* runs of both kinds have ended: one stopped by a None partition, one completed
C4_Witness ==
    /\ \E t \in TaskIds : tasks[t].detect = "none" /\ tasks[t].pc = "done"
    /\ Failed
    /\ lastCompleted # None

(***************************************************************************)
(* Claims about the minimum-size filter (specification SpecFilter)         *)
(***************************************************************************)
\* the results of the two implementations that have been computed
FilterResults ==
    { r \in {leiden_filtered, size_filtered} : r.kind = "result" }

Members(c) == { c[i] : i \in 1..Len(c) }

IsPrefix(c, d) == Len(c) <= Len(d) /\ SubSeq(d, 1, Len(c)) = c

\* positions of the raw communities that reach the minimum size
Survivors == { i \in 1..Len(raw_communities) : Len(raw_communities[i]) >= min_community_size }

Dissolved == (1..Len(raw_communities)) \ Survivors

\* the node ids of the dissolved communities
DissolvedNodes == UNION { Members(raw_communities[i]) : i \in Dissolved }

\* the largest surviving raw community, the first one among equally large ones
IsTarget(i) ==
    /\ i \in Survivors
    /\ \A j \in Survivors : Len(raw_communities[j]) <= Len(raw_communities[i])
    /\ \A j \in Survivors : j < i => Len(raw_communities[j]) < Len(raw_communities[i])

\* the position in the output of the surviving raw community i
OutPos(i) == Cardinality({ j \in Survivors : j <= i })

\* C5: when some community reaches the minimum size, the output lists the
\* surviving communities in order; the first largest one is followed by the
\* members of all dissolved communities, every other one is unchanged.
C5_MergeIntoFirstLargest ==
    \A r \in FilterResults :
        Survivors # {} =>
            /\ Len(r.communities) = Cardinality(Survivors)
            /\ \A i \in Survivors :
                 LET out == r.communities[OutPos(i)]
                     own == raw_communities[i]
                 IN IF IsTarget(i)
                    THEN /\ IsPrefix(own, out)
                         /\ Len(out) = Len(own) + Cardinality(DissolvedNodes)
                         /\ Members(out) = Members(own) \cup DissolvedNodes
                    ELSE out = own

\* two equally large survivors and a dissolved community, both filters applied
C5_Witness ==
    /\ leiden_filtered.kind = "result"
    /\ size_filtered.kind = "result"
    /\ Dissolved # {}
    /\ \E i, j \in Survivors :
         /\ i < j
         /\ IsTarget(i)
         /\ Len(raw_communities[i]) = Len(raw_communities[j])

\* C6: a community of exactly the minimum size is kept as a community of
\* its own; a community one node smaller is not, and its members are in the
\* largest surviving community.
C6_Boundary ==
    \A r \in FilterResults :
        \A i \in 1..Len(raw_communities) :
            LET own == raw_communities[i] IN
            /\ Len(own) = min_community_size =>
                 /\ i \in Survivors
                 /\ OutPos(i) <= Len(r.communities)
                 /\ IsPrefix(own, r.communities[OutPos(i)])
                 /\ Members(r.communities[OutPos(i)]) \ Members(own) \subseteq DissolvedNodes
            /\ Len(own) = min_community_size - 1 =>
                 /\ \A k \in 1..Len(r.communities) : r.communities[k] # own
                 /\ \A j \in Survivors :
                      IsTarget(j) =>
                        /\ OutPos(j) <= Len(r.communities)
                        /\ Members(own) \subseteq Members(r.communities[OutPos(j)])
                        /\ \A k \in 1..Len(r.communities) :
                             k # OutPos(j) => Members(own) \cap Members(r.communities[k]) = {}

\* a community at the minimum size next to one just below it, both filters applied
C6_Witness ==
    /\ leiden_filtered.kind = "result"
    /\ size_filtered.kind = "result"
    /\ min_community_size >= 2
    /\ \E i, j \in 1..Len(raw_communities) :
         /\ Len(raw_communities[i]) = min_community_size
         /\ Len(raw_communities[j]) = min_community_size - 1

\* the node ids of the whole partition
AllNodes == UNION { Members(raw_communities[i]) : i \in 1..Len(raw_communities) }

\* C7: when no community reaches the minimum size, the dissolved nodes form
\* exactly one community if they number at least the minimum size, and
\* otherwise the partitioner reports failure instead of returning a result.
C7_NoSurvivorPolicy ==
    (algorithms = "cdlib" /\ Survivors = {}) =>
        /\ leiden_filtered.kind # "pending" =>
             IF Cardinality(AllNodes) >= min_community_size
             THEN /\ leiden_filtered.kind = "result"
                  /\ Len(leiden_filtered.communities) = 1
                  /\ Members(leiden_filtered.communities[1]) = AllNodes
             ELSE leiden_filtered.kind = "None"
        /\ size_filtered.kind # "pending" =>
             IF Cardinality(AllNodes) >= min_community_size
             THEN /\ Len(size_filtered.communities) = 1
                  /\ Members(size_filtered.communities[1]) = AllNodes
             ELSE size_filtered.kind # "result"

\* C8: detect_communities_leiden and filter_communities_by_size return the
\* same list of communities for the same raw partition and minimum size.
C8_SameFilter ==
    (leiden_filtered.kind = "result" /\ size_filtered.kind = "result") =>
        leiden_filtered.communities = size_filtered.communities

(***************************************************************************)
(* Claims about the graph builder (specification SpecGraph)                *)
(***************************************************************************)
Built == G.kind = "graph"

PatientIds == { id \in DOMAIN G.nodes : G.nodes[id].node_type = "patient" }

\* the rows of a patient, and those of them flagged DNA, counted in df
RowsOf(id) == { i \in 1..Len(df) : df[i].patient = id[2] }
DnaRowsOf(id) == { i \in RowsOf(id) : df[i].dna = 1 }

\* C9: every patient node has total_appointments = its number of rows,
\* total_dnas = its number of DNA rows, dna_rate = (total_dnas + 1) /
\* (total_appointments + 5), and 0 < dna_rate < 1.
C9_SmoothedRate ==
    Built =>
        \A id \in PatientIds :
            LET n == G.nodes[id] IN
            /\ n.total_appointments = Cardinality(RowsOf(id))
            /\ n.total_dnas = Cardinality(DnaRowsOf(id))
            /\ n.dna_rate.den > 0
            /\ n.dna_rate.num * (Cardinality(RowsOf(id)) + 5)
                 = (Cardinality(DnaRowsOf(id)) + 1) * n.dna_rate.den
            /\ 0 < n.dna_rate.num
            /\ n.dna_rate.num < n.dna_rate.den

\* a patient all of whose rows are DNA, next to one with none
C9_Witness ==
    /\ Built
    /\ \E a, b \in PatientIds :
         /\ G.nodes[a].total_dnas = G.nodes[a].total_appointments
         /\ G.nodes[a].total_appointments >= 2
         /\ G.nodes[b].total_dnas = 0

\* the category the thresholds 0.3 and 0.1 give to (dnas + 1) / (appointments + 5)
ExpectedCategory(appointments, dnas) ==
    IF 10 * (dnas + 1) > 3 * (appointments + 5) THEN "High"
    ELSE IF 10 * (dnas + 1) > appointments + 5 THEN "Medium"
    ELSE "Low"

\* C10: risk_category is High when the smoothed rate is > 0.3, Medium when
\* it is > 0.1 and <= 0.3, Low when it is <= 0.1; a patient with 3
\* appointments and 1 DNA is Medium.
C10_RiskCategory ==
    Built =>
        \A id \in PatientIds :
            LET n == G.nodes[id] IN
            /\ n.risk_category
                 = ExpectedCategory(Cardinality(RowsOf(id)), Cardinality(DnaRowsOf(id)))
            /\ (Cardinality(RowsOf(id)) = 3 /\ Cardinality(DnaRowsOf(id)) = 1)
                 => n.risk_category = "Medium"

\* the patient of the scenario, built into the graph
C10_Witness ==
    /\ Built
    /\ \E id \in PatientIds :
         /\ G.nodes[id].total_appointments = 3
         /\ G.nodes[id].total_dnas = 1
         /\ G.nodes[id].risk_category = "Medium"

\* the (patient node, site node) pairs that occur in df, and the rows of one
PairsIn == { << PatientId(df[i].patient), SiteId(df[i].site) >> : i \in 1..Len(df) }
PairRows(e) == { i \in 1..Len(df) : df[i].patient = e[1][2] /\ df[i].site = e[2][2] }
PairDnaRows(e) == { i \in PairRows(e) : df[i].dna = 1 }

\* C11: the graph has exactly one edge for each (patient, site) pair that
\* occurs in the rows; its weight is the number of rows of the pair, its
\* dna_count the number of DNA rows among them, its dna_rate their quotient.
C11_OneEdgePerPair ==
    Built =>
        /\ DOMAIN G.edges = PairsIn
        /\ \A e \in DOMAIN G.edges :
             /\ G.edges[e].weight = Cardinality(PairRows(e))
             /\ G.edges[e].dna_count = Cardinality(PairDnaRows(e))
             /\ G.edges[e].dna_rate.den > 0
             /\ G.edges[e].dna_rate.num * G.edges[e].weight
                  = G.edges[e].dna_count * G.edges[e].dna_rate.den

\* a pair with three rows, two of them DNA, next to another pair
C11_Witness ==
    /\ Built
    /\ \E e, f \in DOMAIN G.edges :
         /\ e # f
         /\ G.edges[e].weight = 3
         /\ G.edges[e].dna_count = 2

\* C13: every edge joins one patient node and one site node, no edge joins
\* a node to itself, no pair has a second edge in the other direction, and
\* a patient key equal to a site code still gives two nodes.
C13_Bipartite ==
    Built =>
        /\ \A e \in DOMAIN G.edges :
             /\ e[1] # e[2]
             /\ e[1] \in DOMAIN G.nodes
             /\ e[2] \in DOMAIN G.nodes
             /\ G.nodes[e[1]].node_type = "patient"
             /\ G.nodes[e[2]].node_type = "site"
             /\ << e[2], e[1] >> \notin DOMAIN G.edges
        /\ Cardinality(DOMAIN G.nodes)
             = NUnique(df, 1..Len(df), "patient") + NUnique(df, 1..Len(df), "site")

\* patient "A" has an appointment at site "A"
C13_Witness ==
    /\ Built
    /\ \E e \in DOMAIN G.edges : e[1][2] = e[2][2]

(***************************************************************************)
(* Claims about rows that differ in every column (specification            *)
(* SpecRecords)                                                            *)
(***************************************************************************)
\* the columns an edge carries besides its counts, of an edge and of a row
EdgeFields(edge) ==
    << edge.appointment_date, edge.treatment_function, edge.referring_org, edge.outcome >>
RowFields(row) ==
    << row.appointment_date, row.treatment_function, row.referring_org, row.outcome >>

FirstOf(positions) == CHOOSE i \in positions : \A j \in positions : i <= j
LastOf(positions) == CHOOSE i \in positions : \A j \in positions : j <= i

PatientsIn == { df[i].patient : i \in 1..Len(df) }

C14_Nodes ==
    Built =>
        /\ PatientIds = { PatientId(p) : p \in PatientsIn }
        /\ \A p \in PatientsIn :
             /\ Cardinality({ k \in 1..Len(G.node_order) : G.node_order[k] = PatientId(p) }) = 1
             /\ LET first == df[FirstOf(RowsOf(PatientId(p)))]
                    n == G.nodes[PatientId(p)]
                IN /\ n.age = first.age
                   /\ n.age_group = AgeGroup(first.age)
                   /\ n.postcode = first.postcode
                   /\ n.org_code = first.org_code

C14_Step ==
    Built =>
        \A id \in PatientIds :
            /\ id \in DOMAIN G'.nodes
            /\ G'.nodes[id] = G.nodes[id]

\* C14: each distinct patient has exactly one patient node, whose age,
\* age_group, postcode and org_code are those of the patient's first row,
\* and no step after the node is built (edge insertion, partitioning,
\* scoring, export) changes a patient node's attributes.
C14_PatientNodesFixed == []C14_Nodes /\ [][C14_Step]_vars

\* a run that reached the export, with a patient whose first and last rows
\* differ in age
C14_Witness ==
    /\ Built
    /\ export_data.kind = "export"
    /\ \E id \in PatientIds :
         /\ Cardinality(RowsOf(id)) > 1
         /\ df[FirstOf(RowsOf(id))].age # df[LastOf(RowsOf(id))].age
         /\ G.nodes[id].age = df[FirstOf(RowsOf(id))].age

(***************************************************************************)
(* Claims about the cleaning (specification SpecClean)                     *)
(***************************************************************************)
Cleaned == network_data.kind = "table"

\* the rows of sampled_df with both identifiers, and the place of one of
\* them in the cleaned table
Kept == { i \in 1..Len(sampled_df) :
            sampled_df[i].patient # NA /\ sampled_df[i].site # NA }
Rank(i) == Cardinality({ j \in Kept : j <= i })
KeptOf(column, value) == { i \in Kept : sampled_df[i][column] = value }

\* C15: clean_for_network removes every row whose patient or site
\* identifier is missing and keeps every other row, in order; the graph is
\* built after it, has no node for a missing identifier, and counts the
\* kept rows only.
C15_MissingIdentifiersDropped ==
    /\ Built => Cleaned
    /\ Cleaned =>
         /\ Len(network_data.rows) = Cardinality(Kept)
         /\ \A i \in Kept :
              /\ network_data.rows[Rank(i)].patient = sampled_df[i].patient
              /\ network_data.rows[Rank(i)].site = sampled_df[i].site
    /\ Built =>
         /\ DOMAIN G.nodes = { PatientId(sampled_df[i].patient) : i \in Kept }
                               \cup { SiteId(sampled_df[i].site) : i \in Kept }
         /\ \A id \in DOMAIN G.nodes :
              /\ id[2] # NA
              /\ G.nodes[id].total_appointments
                   = Cardinality(KeptOf(IF id[1] = "P" THEN "patient" ELSE "site", id[2]))

\* a row without patient was dropped, a row with both identifiers kept
C15_Witness ==
    /\ Built
    /\ \E i, j \in 1..Len(sampled_df) :
         /\ sampled_df[i].patient = NA
         /\ sampled_df[i].site # NA
         /\ j \in Kept
         /\ G.nodes[PatientId(sampled_df[j].patient)].total_appointments = 1

\* C16: a kept row is flagged DNA exactly when its attendance code is '3'
\* or '7'; a missing code becomes '0' and is not flagged; the row still
\* counts in its patient's total_appointments.
C16_DnaFlag ==
    /\ Cleaned =>
         /\ Len(network_data.rows) = Cardinality(Kept)
         /\ \A i \in Kept :
              LET code == sampled_df[i].attendance
                  row == network_data.rows[Rank(i)]
              IN /\ row.dna = (IF code \in {"3", "7"} THEN 1 ELSE 0)
                 /\ code = NA => (row.attendance = "0" /\ row.dna = 0)
                 /\ code # NA => row.attendance = code
    /\ Built =>
         \A id \in PatientIds :
            /\ G.nodes[id].total_appointments = Cardinality(KeptOf("patient", id[2]))
            /\ G.nodes[id].total_dnas
                 = Cardinality({ i \in KeptOf("patient", id[2]) :
                                   sampled_df[i].attendance \in {"3", "7"} })

\* a patient with one row without a code and one row with code '7'
C16_Witness ==
    /\ Built
    /\ \E i, j \in Kept :
         /\ sampled_df[i].patient = sampled_df[j].patient
         /\ sampled_df[i].attendance = NA
         /\ sampled_df[j].attendance = "7"
         /\ G.nodes[PatientId(sampled_df[i].patient)].total_appointments = 2
         /\ G.nodes[PatientId(sampled_df[i].patient)].total_dnas = 1

(***************************************************************************)
(* Claims about the scoring (specification SpecScore)                      *)
(***************************************************************************)
Analyzed == community_df.kind = "frame"

\* the scored entries, and the patients of the community an entry is about
Entries == { community_df.rows[i] : i \in 1..Len(community_df.rows) }
CommunityAt(position) == communities.communities[position + 1]
PatientsAt(position) ==
    SelectSeq(CommunityAt(position), LAMBDA n : G.nodes[n].node_type = "patient")

\* fifty times a patient's dna_rate (every rate here is a multiple of 1/50)
Fiftieths(id) == (G.nodes[id].dna_rate.num * 50) \div G.nodes[id].dna_rate.den

RECURSIVE SumFiftieths(_, _)
SumFiftieths(ids, k) ==
    IF k = 0 THEN 0 ELSE SumFiftieths(ids, k - 1) + Fiftieths(ids[k])

HighAt(position) ==
    Cardinality({ k \in 1..Len(PatientsAt(position)) :
                    G.nodes[PatientsAt(position)[k]].risk_category = "High" })

\* C17: the risk_score of a scored community is 0.7 times the mean of its
\* patients' dna_rate plus 0.3 times the share of its patients whose
\* risk_category is High; rates 0.1, 0.2, 0.9 with one High of three
\* give 0.38.
C17_RiskScore ==
    Analyzed =>
        \A c \in Entries :
            LET ids == PatientsAt(c.community_id)
                n == Len(ids)
            IN /\ n > 0
               /\ c.risk_score.den > 0
               /\ c.risk_score.num * 500 * n
                    = (7 * SumFiftieths(ids, n) + 150 * HighAt(c.community_id))
                        * c.risk_score.den
               /\ ( /\ n = 3
                    /\ { Fiftieths(ids[k]) : k \in 1..n } = {5, 10, 45}
                    /\ HighAt(c.community_id) = 1 )
                    => c.risk_score.num * 100 = 38 * c.risk_score.den

\* the community of the example was scored
C17_Witness ==
    /\ Analyzed
    /\ \E c \in Entries :
         /\ Len(PatientsAt(c.community_id)) = 3
         /\ { Fiftieths(PatientsAt(c.community_id)[k]) : k \in 1..3 } = {5, 10, 45}
         /\ c.risk_score = Rate(19, 50)

\* the positions (from 0) of the partitioner's communities
Positions == 0..(Len(communities.communities) - 1)
EntriesOf(position) == { i \in 1..Len(community_df.rows) :
                           community_df.rows[i].community_id = position }

\* C18: a community without a patient has no entry in the statistics and
\* the thresholds lie within the scores of the communities that have a
\* patient; the analysis ends with a frame or with the KeyError of an empty
\* frame, never with a division error; a community with a patient has
\* exactly one entry, whose community_id is its position in the
\* partitioner's output.
C18_UnscoredCommunities ==
    /\ community_df.kind \in {"pending", "frame", "KeyError"}
    /\ community_df.kind = "KeyError" => \A p \in Positions : Len(PatientsAt(p)) = 0
    /\ Analyzed =>
         /\ \A i \in 1..Len(community_df.rows) : community_df.rows[i].community_id \in Positions
         /\ \A p \in Positions :
              /\ Len(PatientsAt(p)) = 0 => EntriesOf(p) = {}
              /\ Len(PatientsAt(p)) > 0 =>
                   /\ Cardinality(EntriesOf(p)) = 1
                   /\ \A i \in EntriesOf(p) :
                        /\ community_df.rows[i].patients_count = Len(PatientsAt(p))
                        /\ community_df.rows[i].size = Len(CommunityAt(p))
    /\ risk_communities.kind = "risk" =>
         /\ \E c \in Entries : Leq(c.risk_score, risk_communities.low_threshold)
         /\ \E c \in Entries : Leq(risk_communities.high_threshold, c.risk_score)
         /\ \A c \in Entries : Len(PatientsAt(c.community_id)) > 0

\* the first community of the partition is a site alone, the next ones are scored
C18_Witness ==
    /\ risk_communities.kind = "risk"
    /\ Len(communities.communities) >= 3
    /\ Len(PatientsAt(0)) = 0
    /\ EntriesOf(0) = {}
    /\ \A p \in Positions \ {0} : Cardinality(EntriesOf(p)) = 1

\* the k-th smallest risk_score of the entries
ScoresBelow(v) == { i \in 1..Len(community_df.rows) :
                      ~Leq(v, community_df.rows[i].risk_score) }
ScoresUpTo(v) == { i \in 1..Len(community_df.rows) :
                     Leq(community_df.rows[i].risk_score, v) }
OrderStatistic(k) ==
    CHOOSE v \in { c.risk_score : c \in Entries } :
        Cardinality(ScoresBelow(v)) < k /\ k <= Cardinality(ScoresUpTo(v))

\* the percentile at q quarters: the value at position (n - 1) * q / 4
\* of the sorted scores, interpolated linearly between its neighbours
Percentile(q) ==
    LET h == (Len(community_df.rows) - 1) * q
        lo == (h \div 4) + 1
        rest == h % 4
    IN IF rest = 0 THEN OrderStatistic(lo)
       ELSE Plus(Times(OrderStatistic(lo), Rate(4 - rest, 4)),
                 Times(OrderStatistic(lo + 1), Rate(rest, 4)))

\* C19: the high and low thresholds are the 75th and 25th percentile of
\* risk_score over the scored communities; an exported community is High
\* when its risk_score >= the high threshold, otherwise Low when its
\* risk_score <= the low threshold, otherwise Medium; the thresholds in the
\* export metadata are the ones identify_high_low_risk_communities used.
C19_Thresholds ==
    /\ risk_communities.kind = "risk" =>
         /\ risk_communities.high_threshold = Percentile(3)
         /\ risk_communities.low_threshold = Percentile(1)
    /\ export_data.kind = "export" =>
         /\ export_data.metadata.thresholds.high = risk_communities.high_threshold
         /\ export_data.metadata.thresholds.low = risk_communities.low_threshold
         /\ Len(export_data.communities) = Len(community_df.rows)
         /\ \A i \in 1..Len(export_data.communities) :
              LET c == export_data.communities[i]
                  high == c.risk_score.num * risk_communities.high_threshold.den
                            >= risk_communities.high_threshold.num * c.risk_score.den
                  low == c.risk_score.num * risk_communities.low_threshold.den
                           <= risk_communities.low_threshold.num * c.risk_score.den
              IN /\ c.risk_score = community_df.rows[i].risk_score
                 /\ c.id = community_df.rows[i].community_id
                 /\ c.risk_level = (IF high THEN "High" ELSE IF low THEN "Low" ELSE "Medium")

\* an export with a community of each level and interpolated thresholds
C19_Witness ==
    /\ export_data.kind = "export"
    /\ { export_data.communities[i].risk_level : i \in 1..Len(export_data.communities) }
         = {"High", "Medium", "Low"}
    /\ \A c \in Entries : c.risk_score # export_data.metadata.thresholds.high

\* the age_group labels of an entry's patients, in the community's order
AgeGroupsAt(position) ==
    [ k \in 1..Len(PatientsAt(position)) |-> G.nodes[PatientsAt(position)[k]].age_group ]

Occurrences(labels, label) == { k \in 1..Len(labels) : labels[k] = label }
Highest(labels, label) ==
    \A k \in 1..Len(labels) :
        Cardinality(Occurrences(labels, labels[k])) <= Cardinality(Occurrences(labels, label))

\* C20 as stated: dominant_age_group has the highest count, and among the
\* labels that share it, it is the one that reaches that count first (the
\* one whose last patient comes earliest).
C20_FirstToReachCount ==
    Analyzed =>
        \A c \in Entries :
            LET labels == AgeGroupsAt(c.community_id)
                d == c.dominant_age_group
            IN /\ Occurrences(labels, d) # {}
               /\ Highest(labels, d)
               /\ \A k \in 1..Len(labels) :
                    Highest(labels, labels[k]) =>
                        LastOf(Occurrences(labels, d))
                          <= LastOf(Occurrences(labels, labels[k]))

\* C20, amended: dominant_age_group has the highest count, and among the
\* labels that share it, it is the one met first while the community's
\* patients are enumerated in order.
C20_FirstEncountered ==
    Analyzed =>
        \A c \in Entries :
            LET labels == AgeGroupsAt(c.community_id)
                d == c.dominant_age_group
            IN /\ Occurrences(labels, d) # {}
               /\ Highest(labels, d)
               /\ \A k \in 1..Len(labels) :
                    Highest(labels, labels[k]) =>
                        FirstOf(Occurrences(labels, d))
                          <= FirstOf(Occurrences(labels, labels[k]))

\* a community whose patients are Child, Adult, Adult, Child in this order
C20_Witness ==
    /\ Analyzed
    /\ \E c \in Entries :
         /\ AgeGroupsAt(c.community_id) = << "Child", "Adult", "Adult", "Child" >>
         /\ c.dominant_age_group = "Child"

(***************************************************************************)
(* Claims about the insights and the export document (specification        *)
(* SpecScore)                                                              *)
(***************************************************************************)
Reported == insights.kind = "insights"

\* the entries of the High tier: risk_score >= the high threshold
HighTier == { i \in 1..Len(community_df.rows) :
                Leq(risk_communities.high_threshold, community_df.rows[i].risk_score) }

InsightsOfType(type) == { k \in 1..Len(insights.insights) : insights.insights[k].type = type }

\* C21: there is exactly one insight of type 'High Risk' for each community
\* of the High tier and none for another community; it has priority
\* 'Urgent' and carries the community's id, patient count, avg_dna_rate (to
\* a tenth of a percent) and dominant age group; these insights come before
\* the Site Performance and Demographic Pattern ones.
C21_HighRiskInsights ==
    Reported =>
        LET list == insights.insights
            high == InsightsOfType("High Risk")
        IN /\ Cardinality(high) = Cardinality(HighTier)
           /\ \A i \in HighTier :
                \E k \in high :
                   LET c == community_df.rows[i] IN
                   /\ list[k].community_id = c.community_id
                   /\ list[k].priority = "Urgent"
                   /\ list[k].patients_affected = c.patients_count
                   /\ 2 * (1000 * c.avg_dna_rate.num - list[k].key_issue.percent * c.avg_dna_rate.den)
                        <= c.avg_dna_rate.den
                   /\ 2 * (list[k].key_issue.percent * c.avg_dna_rate.den - 1000 * c.avg_dna_rate.num)
                        <= c.avg_dna_rate.den
                   /\ list[k].recommendation.age_group = c.dominant_age_group
           /\ \A k \in high :
                /\ \E i \in HighTier : community_df.rows[i].community_id = list[k].community_id
                /\ \A j \in 1..Len(list) : j \notin high => k < j

\* two High Risk insights, a community outside the High tier, and both
\* other kinds of insight after them
C21_Witness ==
    /\ Reported
    /\ Cardinality(InsightsOfType("High Risk")) = 2
    /\ Cardinality(HighTier) < Len(community_df.rows)
    /\ InsightsOfType("Site Performance") = {3}
    /\ InsightsOfType("Demographic Pattern") = {4}

\* the sum of avg_site_dna_rate over the High tier
HighTierSiteRates ==
    LET high == SelectSeq(community_df.rows,
                          LAMBDA c : Leq(risk_communities.high_threshold, c.risk_score))
    IN SumRates([ i \in 1..Len(high) |-> high[i].avg_site_dna_rate ], Len(high))

Exported == export_data.kind = "export"

\* C23: in every export document metadata.total_nodes is the number of
\* exported nodes, total_edges the number of exported links and
\* total_communities the number of exported communities.
C23_MetadataTotals ==
    Exported =>
        /\ export_data.metadata.total_nodes = Len(export_data.nodes)
        /\ export_data.metadata.total_edges = Cardinality(DOMAIN export_data.links)
        /\ export_data.metadata.total_communities = Len(export_data.communities)

\* C25: the three risk counts of the metadata are >= 0, sum to the number of
\* exported communities and equal the High, Medium and Low counts of
\* summary.risk_distribution.
C25_RiskCounts ==
    Exported =>
        LET m == export_data.metadata
            d == export_data.summary.risk_distribution
        IN /\ m.high_risk_communities >= 0
           /\ m.medium_risk_communities >= 0
           /\ m.low_risk_communities >= 0
           /\ m.high_risk_communities + m.medium_risk_communities + m.low_risk_communities
                = Len(export_data.communities)
           /\ m.high_risk_communities = d.High
           /\ m.medium_risk_communities = d.Medium
           /\ m.low_risk_communities = d.Low

Identified == risk_communities.kind = "risk"

\* the community ids of a frame of communities
CommunityIds(rows) == { rows[i].community_id : i \in 1..Len(rows) }

\* C26: every scored community is in exactly one of high_risk, medium_risk
\* and low_risk: the three are pairwise disjoint and together hold all the
\* scored communities.
C26_RiskPartition ==
    Identified =>
        LET high == CommunityIds(risk_communities.high_risk)
            medium == CommunityIds(risk_communities.medium_risk)
            low == CommunityIds(risk_communities.low_risk)
        IN /\ high \cap medium = {}
           /\ high \cap low = {}
           /\ medium \cap low = {}
           /\ high \cup medium \cup low = CommunityIds(community_df.rows)

(***************************************************************************)
(* Conservation of nodes by the minimum-size filter (specification         *)
(* SpecFilter)                                                             *)
(***************************************************************************)
\* the places (community, position) of a list of communities
Places(comms) ==
    { pl \in (1..Len(comms)) \X (1..MaxNodes) : pl[2] <= Len(comms[pl[1]]) }

\* C27: when at least one community reaches the minimum size, every node of
\* the raw partition is at exactly one place of the filtered result, and the
\* filtered communities have as many nodes in total as the raw ones.
C27_NodesConserved ==
    \A r \in FilterResults :
        Survivors # {} =>
            /\ \A n \in AllNodes :
                 Cardinality({ pl \in Places(r.communities) :
                                 r.communities[pl[1]][pl[2]] = n }) = 1
            /\ Cardinality(Places(r.communities)) = Cardinality(Places(raw_communities))

\* both filters have merged dissolved communities into a survivor
C27_Witness ==
    /\ leiden_filtered.kind = "result"
    /\ size_filtered.kind = "result"
    /\ Survivors # {}
    /\ Cardinality(Dissolved) >= 2
    /\ Cardinality(Places(raw_communities)) = Cardinality(AllNodes)

(***************************************************************************)
(* Conservation of appointments by the graph (specification SpecGraph)     *)
(***************************************************************************)
SiteIds == { id \in DOMAIN G.nodes : G.nodes[id].node_type = "site" }

\* the sum of a field over the elements of a function with the given keys
RECURSIVE Total(_, _, _)
Total(f, keys, field) ==
    IF keys = {} THEN 0
    ELSE LET k == CHOOSE x \in keys : TRUE
         IN f[k][field] + Total(f, keys \ {k}, field)

\* the rows of df flagged DNA
DnaRows == { i \in 1..Len(df) : df[i].dna = 1 }

\* C28: total_appointments summed over the patient nodes, summed over the
\* site nodes, and the edge weights summed, each equal the number of rows;
\* total_dnas summed over the patient nodes, over the site nodes, and the
\* edge dna_count summed, each equal the number of rows flagged DNA.
C28_AppointmentsConserved ==
    Built =>
        /\ Total(G.nodes, PatientIds, "total_appointments") = Len(df)
        /\ Total(G.nodes, SiteIds, "total_appointments") = Len(df)
        /\ Total(G.edges, DOMAIN G.edges, "weight") = Len(df)
        /\ Total(G.nodes, PatientIds, "total_dnas") = Cardinality(DnaRows)
        /\ Total(G.nodes, SiteIds, "total_dnas") = Cardinality(DnaRows)
        /\ Total(G.edges, DOMAIN G.edges, "dna_count") = Cardinality(DnaRows)

\* two patients and two sites, a pair with several rows, DNA rows and others
C28_Witness ==
    /\ Built
    /\ Cardinality(PatientIds) = 2
    /\ Cardinality(SiteIds) = 2
    /\ Cardinality(DnaRows) >= 2
    /\ Cardinality(DnaRows) < Len(df)
    /\ \E e \in DOMAIN G.edges : G.edges[e].weight >= 2 /\ G.edges[e].dna_count = 1

(***************************************************************************)
(* Claims about the runs of the host services (specification Spec)         *)
(***************************************************************************)
\* the run whose statement this step executes: a task that existed before
\* the step and whose position the step changes
Stepped(t) == t \in TaskIds /\ tasks'[t] # tasks[t]

\* one change of the visible progress of api.py
C24_Step ==
    (app = "api" /\ analysis_state'.analysis_progress # analysis_state.analysis_progress) =>
        LET p == analysis_state.analysis_progress
            q == analysis_state'.analysis_progress
        IN \E t \in TaskIds :
             /\ Stepped(t)
             /\ \A u \in TaskIds : Stepped(u) => u = t
             /\ \/ Scheduled(t) /\ q = ApiPhases[1]
                \/ /\ Running(t)
                   /\ p \in RunningStatuses
                   /\ \/ /\ q \in RunningStatuses
                         /\ ApiPhaseIndex(q) = ApiPhaseIndex(p) + 1
                      \/ /\ q \in ApiErrorStatuses
                         /\ tasks'[t].pc = "done"
                      \/ /\ p = ApiPhases[Len(ApiPhases)]
                         /\ q = "completed"
                         /\ tasks'[t].pc = "done"
                         /\ tasks[t].exported
                         /\ export_file = t

\* a run that has ended stays ended
C24_EndedStaysEnded ==
    \A t \in TaskIds : Ended(t) => tasks'[t] = tasks[t]

InitializeAnswered == resp'.endpoint = "initialize" /\ resp' # resp

C29_Step ==
    (app = "api" /\ analysis_state.initialized) =>
        /\ analysis_state'.initialized
        /\ Len(tasks') = Len(tasks)
        /\ InitializeAnswered =>
             /\ ~resp'.ok
             /\ analysis_state' = analysis_state
             /\ tasks' = tasks
             /\ export_file' = export_file

C29_ResultsPresent ==
    (app = "api" /\ analysis_state.initialized) =>
        /\ analysis_state.graph # None
        /\ analysis_state.communities # None
        /\ analysis_state.community_df # None

\* C29: in api.py, once initialized is true it stays true, no step adds a
\* run, a POST /initialize is refused and leaves analysis_state, the tasks
\* and the export file as they were, and graph, communities and
\* community_df are present.
C29_InitializedIsFinal == []C29_ResultsPresent /\ [][C29_Step]_vars

\* a POST /initialize has been refused because a run had completed
C29_Witness ==
    /\ app = "api"
    /\ analysis_state.initialized
    /\ resp.endpoint = "initialize"
    /\ resp.status = "completed"
    /\ ~resp.ok

\* the fields a run that fails may change
StatusFields == IF app = "api" THEN {"analysis_progress"}
                ELSE {"status", "progress", "message"}

\* a step of a run that has not got past its export: every step of a run
\* that fails is one
C30_Step ==
    \A t \in TaskIds :
        (Stepped(t) /\ ~tasks'[t].exported) =>
            /\ \A f \in DOMAIN analysis_state :
                 f \notin StatusFields => analysis_state'[f] = analysis_state[f]
            /\ export_file' = export_file

\* what the start request answers now
StartResponse == IF app = "api" THEN ApiInitializeResponse ELSE WebStartResponse

C30_Restartable == (~Busy /\ Failed) => StartResponse.ok

\* C30: a run that fails changes only the status fields: graph,
\* communities, community_df, risk_communities, initialized, last_updated
\* and the export data keep their values; and while the status shows the
\* failure a start request is accepted.
C30_FailureFrame == []C30_Restartable /\ [][C30_Step]_vars

====
